---- MODULE Spec2Model ----
(***************************************************************************)
(* State-machine model of the browsing engine of rust-aws-tui:             *)
(*   - DateSelection   (src/src/app_state/date_selection.rs)               *)
(*   - LogViewer       (src/src/app_state/log_viewer.rs)                   *)
(*   - FunctionSelection and its background refresh task                   *)
(*                     (src/src/app_state/function_selection.rs)           *)
(*   - ProfileSelection (src/src/app_state/profile_selection.rs)           *)
(*   - App and the key handling of main (src/src/main.rs)                  *)
(* One behaviour exercises one of the screens (variable `active`); the     *)
(* fields of the other screens keep their constructed values.              *)
(*                                                                         *)
(* Modelling conventions                                                   *)
(*   - A String is a sequence of one-character strings.                    *)
(*   - Option<T> is the record [some |-> FALSE] (None) or                  *)
(*     [some |-> TRUE, v |-> x] (Some(x)).                                 *)
(*   - DateTime<Local> is the number of minutes since 1970-01-01 00:00 in  *)
(*     a local zone of fixed offset; the sub-minute part is always common  *)
(*     to from_date and to_date (both derive from one Local::now()).       *)
(***************************************************************************)
EXTENDS Integers, Sequences, FiniteSets, TLC

VARIABLES
    active,                 \* which screen this behaviour exercises
    last,                   \* name of the operation that ran last
    \* ---- DateSelection ----
    now,                    \* the wall clock read by Local::now()
    from_date, to_date, is_selecting_from, current_field,
    selected_quick_range, custom_selection,
    ticks,                  \* number of times the clock has advanced
    ds_ops,                 \* number of counted editor operations performed
    \* ---- LogViewer ----
    lv_source,              \* the pages the log source answers with
    cloudwatch_client,      \* TRUE once initialize has built the client
    logs, filtered_logs, lv_filter_input, scroll_offset, selected_log,
    expanded,
    lv_result,              \* what the last initialize returned
    visible_range,          \* what the last get_visible_range returned
    \* ---- FunctionSelection ----
    fs_env,                 \* the function source's pages and the cache entry
                            \* found at construction
    cache,                  \* the cache entry of the profile
    lambda_functions,       \* the list behind Arc<Mutex<..>>
    filtered_functions, selected_index, fs_filter_input, list_state,
    ui,                     \* where the UI thread is inside load_functions
    ui_functions,           \* its local cached_functions / functions
    load_result,            \* what the last load_functions returned
    fs_loads,               \* number of load_functions calls
    tasks,                  \* the spawned update_functions_in_background
    \* ---- ProfileSelection ----
    profiles, profile_list_state,
    \* ---- App (src/src/main.rs) ----
    app_env,                \* the configured profiles and the source's pages
    app_state,              \* App::state
    app_exit,               \* what main returned, once its loop has ended
    app_profile_list_state, app_selected_profile,
    app_lambda_functions, app_filtered_functions, app_selected_index,
    app_filter_input, app_list_state,
    app_keys                \* number of keys read so far

dsVars == <<now, ticks, from_date, to_date, is_selecting_from, current_field,
            selected_quick_range, custom_selection, ds_ops>>

lvVars == <<lv_source, cloudwatch_client, logs, filtered_logs,
            lv_filter_input, scroll_offset, selected_log, expanded, lv_result,
            visible_range>>

fsVars == <<fs_env, cache, lambda_functions, filtered_functions,
            selected_index, fs_filter_input, list_state, ui, ui_functions,
            load_result, fs_loads, tasks>>

psVars == <<profiles, profile_list_state>>

appVars == <<app_env, app_state, app_exit, app_profile_list_state,
             app_selected_profile, app_lambda_functions,
             app_filtered_functions, app_selected_index, app_filter_input,
             app_list_state, app_keys>>

vars == <<active, last, dsVars, lvVars, fsVars, psVars, appVars>>

----------------------------------------------------------------------------
(* Option<T> *)
None == [some |-> FALSE]
Some(x) == [some |-> TRUE, v |-> x]

Min(x, y) == IF x <= y THEN x ELSE y

(* usize::saturating_sub *)
saturating_sub(x, y) == IF x >= y THEN x - y ELSE 0

----------------------------------------------------------------------------
(* Strings: sequences of one-character strings. *)

(* The characters the model uses, in increasing byte order. *)
Chars == <<" ", "A", "B", "C", "D", "Z", "a", "b", "c", "d", "z">>

CharCode(c) == CHOOSE i \in DOMAIN Chars : Chars[i] = c

(* char::to_lowercase *)
LowerChar(c) ==
    CASE c = "A" -> "a" [] c = "B" -> "b" [] c = "C" -> "c"
      [] c = "D" -> "d" [] c = "Z" -> "z" [] OTHER -> c

(* str::to_lowercase *)
to_lowercase(s) == [i \in DOMAIN s |-> LowerChar(s[i])]

(* char::is_whitespace *)
IsWhitespace(c) == c = " "

(* str::split_whitespace: the maximal runs of non-whitespace characters. *)
RECURSIVE SplitFrom(_, _, _)
SplitFrom(s, i, cur) ==
    IF i > Len(s)
    THEN (IF cur = <<>> THEN <<>> ELSE <<cur>>)
    ELSE IF IsWhitespace(s[i])
         THEN (IF cur = <<>> THEN <<>> ELSE <<cur>>) \o SplitFrom(s, i + 1, <<>>)
         ELSE SplitFrom(s, i + 1, Append(cur, s[i]))

split_whitespace(s) == SplitFrom(s, 1, <<>>)

(* str::contains: t occurs in s as a contiguous substring. *)
contains(s, t) ==
    \E i \in 0..(Len(s) - Len(t)) : SubSeq(s, i + 1, i + Len(t)) = t

(* The order of str: lexicographic on bytes. *)
RECURSIVE StrLess(_, _)
StrLess(s, t) ==
    IF t = <<>> THEN FALSE
    ELSE IF s = <<>> THEN TRUE
    ELSE IF CharCode(Head(s)) # CharCode(Head(t))
         THEN CharCode(Head(s)) < CharCode(Head(t))
         ELSE StrLess(Tail(s), Tail(t))

(* Insertion of x into the sorted sequence xs, after its equals. *)
RECURSIVE InsertSorted(_, _)
InsertSorted(x, xs) ==
    IF xs = <<>> THEN <<x>>
    ELSE IF StrLess(x, Head(xs)) THEN <<x>> \o xs
    ELSE <<Head(xs)>> \o InsertSorted(x, Tail(xs))

(* Vec<String>::sort *)
RECURSIVE sort(_)
sort(xs) ==
    IF xs = <<>> THEN <<>>
    ELSE InsertSorted(xs[Len(xs)], sort(SubSeq(xs, 1, Len(xs) - 1)))

(* all_keywords asking for one keyword only. *)
any_keyword(text, keywords) ==
    \E k \in DOMAIN keywords : contains(text, keywords[k])

(* all_keywords looking at the first keyword only. *)
first_keyword(text, keywords) ==
    keywords # <<>> => contains(text, keywords[1])

(* keywords.iter().all(|keyword| text.contains(keyword)) *)
all_keywords(text, keywords) ==
    \A k \in DOMAIN keywords : contains(text, keywords[k])

----------------------------------------------------------------------------
(* Calendar arithmetic of chrono (proleptic Gregorian calendar). *)

IsLeap(y) == (y % 4 = 0 /\ y % 100 # 0) \/ y % 400 = 0

DaysInMonth(y, m) ==
    IF m = 2 THEN (IF IsLeap(y) THEN 29 ELSE 28)
    ELSE IF m \in {4, 6, 9, 11} THEN 30 ELSE 31

(* Days from 1970-01-01 to the civil date y-m-d. *)
DaysFromCivil(y, m, d) ==
    LET yy  == IF m <= 2 THEN y - 1 ELSE y
        era == yy \div 400
        yoe == yy - era * 400
        mp  == IF m > 2 THEN m - 3 ELSE m + 9
        doy == (153 * mp + 2) \div 5 + d - 1
        doe == yoe * 365 + yoe \div 4 - yoe \div 100 + doy
    IN  era * 146097 + doe - 719468

(* The civil date of day number z (days since 1970-01-01). *)
CivilFromDays(z) ==
    LET zz  == z + 719468
        era == zz \div 146097
        doe == zz - era * 146097
        yoe == (doe - doe \div 1460 + doe \div 36524 - doe \div 146096) \div 365
        doy == doe - (365 * yoe + yoe \div 4 - yoe \div 100)
        mp  == (5 * doy + 2) \div 153
        d   == doy - (153 * mp + 2) \div 5 + 1
        m   == IF mp < 10 THEN mp + 3 ELSE mp - 9
        y   == yoe + era * 400 + (IF m <= 2 THEN 1 ELSE 0)
    IN  [year |-> y, month |-> m, day |-> d]

MinutesPerDay == 1440

(* DateTime from its calendar fields. *)
MkDate(y, m, d, h, mi) == DaysFromCivil(y, m, d) * MinutesPerDay + h * 60 + mi

(* Datelike::year / month / day and Timelike::hour / minute. *)
DateOf(t)   == CivilFromDays(t \div MinutesPerDay)
YearOf(t)   == DateOf(t).year
MonthOf(t)  == DateOf(t).month
DayOf(t)    == DateOf(t).day
HourOf(t)   == (t % MinutesPerDay) \div 60
MinuteOf(t) == t % 60

(* with_year that moves to the last day of the month when the day does not
   exist in the target year. *)
with_year_last_valid_day(t, y) ==
    Some(MkDate(y, MonthOf(t), Min(DayOf(t), DaysInMonth(y, MonthOf(t))),
                HourOf(t), MinuteOf(t)))

(* Datelike::with_year: None when the day does not exist in the target year. *)
with_year(t, y) ==
    IF DayOf(t) <= DaysInMonth(y, MonthOf(t))
    THEN Some(MkDate(y, MonthOf(t), DayOf(t), HourOf(t), MinuteOf(t)))
    ELSE None

(* Datelike::with_month: None when the day does not exist in the target month. *)
with_month(t, m) ==
    IF m \in 1..12 /\ DayOf(t) <= DaysInMonth(YearOf(t), m)
    THEN Some(MkDate(YearOf(t), m, DayOf(t), HourOf(t), MinuteOf(t)))
    ELSE None

(* Option::unwrap_or *)
unwrap_or(o, dflt) == IF o.some THEN o.v ELSE dflt

(* i32::rem_euclid for a positive modulus *)
rem_euclid(x, n) == x % n

----------------------------------------------------------------------------
(* DateSelection *)

DateFields == {"Year", "Month", "Day", "Hour", "Minute"}

(* QuickRange::all, as the durations (minutes) QuickRange::to_duration gives. *)
quick_ranges == <<60, 120, 180, 360, 720, 1440, 3 * 1440, 7 * 1440>>

(* Bounds of the editor model. *)
MaxDateOps == 4
MaxTicks == 2

(* Clock readings the editor is constructed at: a leap day, a 31st just
   after midnight, and the last minute of a year. *)
StartClocks == { MkDate(2024, 2, 29, 12, 30),
                 MkDate(2024, 1, 31, 0, 10),
                 MkDate(2023, 12, 31, 23, 59) }

(* Minutes the clock advances between two readings. *)
ClockStep == 7

(* DateSelection::new *)
DsNew ==
    /\ now \in StartClocks
    /\ ticks = 0
    /\ from_date = now - 60
    /\ to_date = now
    /\ is_selecting_from = TRUE
    /\ current_field = "Day"
    /\ selected_quick_range = Some(0)
    /\ custom_selection = FALSE
    /\ ds_ops = 0

(* The editor's fields in a behaviour that exercises another screen. *)
DsUnused ==
    /\ now = 0 /\ ticks = 0 /\ from_date = 0 /\ to_date = 0
    /\ is_selecting_from = TRUE /\ current_field = "Day"
    /\ selected_quick_range = Some(0) /\ custom_selection = FALSE
    /\ ds_ops = 0

(* Bookkeeping common to the editor's operations. *)
DsOp(op) ==
    /\ active = "date"
    /\ ds_ops < MaxDateOps
    /\ ds_ops' = ds_ops + 1
    /\ last' = op
    /\ UNCHANGED <<active, now, ticks, lvVars, fsVars, psVars, appVars>>

(* Bookkeeping of the two quick-range operations: they walk a cycle of
   Len(quick_ranges) presets and grow nothing, so they are not counted
   against MaxDateOps and any number of them can follow one another. *)
DsWalk(op) ==
    /\ active = "date"
    /\ last' = op
    /\ UNCHANGED <<active, now, ticks, ds_ops, lvVars, fsVars, psVars, appVars>>

(* Time passes between two operations. *)
ClockTick ==
    /\ active = "date"
    /\ ticks < MaxTicks
    /\ ticks' = ticks + 1
    /\ now' = now + ClockStep
    /\ last' = "tick"
    /\ UNCHANGED <<active, from_date, to_date, is_selecting_from, current_field,
                   selected_quick_range, custom_selection, ds_ops, lvVars,
                   fsVars, psVars, appVars>>

(* apply_quick_range anchored to the to_date it finds instead of the clock. *)
apply_quick_range_frozen(index) ==
    IF index + 1 \in DOMAIN quick_ranges
    THEN [from |-> to_date - quick_ranges[index + 1], to |-> to_date]
    ELSE [from |-> from_date, to |-> to_date]

(* DateSelection::apply_quick_range: the new (from_date, to_date). *)
apply_quick_range(index) ==
    IF index + 1 \in DOMAIN quick_ranges
    THEN [from |-> now - quick_ranges[index + 1], to |-> now]
    ELSE [from |-> from_date, to |-> to_date]

(* DateSelection::toggle_selection *)
toggle_selection ==
    /\ DsOp("toggle_selection")
    /\ is_selecting_from' = IF custom_selection THEN ~is_selecting_from
                            ELSE is_selecting_from
    /\ UNCHANGED <<from_date, to_date, current_field, selected_quick_range,
                   custom_selection>>

(* toggle_custom that re-reads the clock for the first preset on entering
   custom mode as well. *)
toggle_custom_always_applying ==
    /\ DsOp("toggle_custom")
    /\ custom_selection' = ~custom_selection
    /\ selected_quick_range' = Some(0)
    /\ from_date' = apply_quick_range(0).from
    /\ to_date' = apply_quick_range(0).to
    /\ UNCHANGED <<is_selecting_from, current_field>>

(* DateSelection::toggle_custom *)
toggle_custom ==
    /\ DsOp("toggle_custom")
    /\ custom_selection' = ~custom_selection
    /\ IF custom_selection   \* the new value is FALSE: back to quick mode
       THEN /\ selected_quick_range' = Some(0)
            /\ from_date' = apply_quick_range(0).from
            /\ to_date' = apply_quick_range(0).to
       ELSE UNCHANGED <<selected_quick_range, from_date, to_date>>
    /\ UNCHANGED <<is_selecting_from, current_field>>

(* next_quick_range: "(current + 1) % self.quick_ranges.len()" *)
next_index(current) == (current + 1) % Len(quick_ranges)

(* previous_quick_range stopping at the first preset instead of wrapping. *)
previous_index_saturating(current) == saturating_sub(current, 1)

(* previous_quick_range: "if current == 0 { len - 1 } else { current - 1 }" *)
previous_index(current) ==
    IF current = 0 THEN Len(quick_ranges) - 1 ELSE current - 1

(* DateSelection::next_quick_range *)
next_quick_range ==
    /\ DsWalk("next_quick_range")
    /\ IF selected_quick_range.some
       THEN LET next == next_index(selected_quick_range.v)
            IN  /\ selected_quick_range' = Some(next)
                /\ from_date' = apply_quick_range(next).from
                /\ to_date' = apply_quick_range(next).to
       ELSE UNCHANGED <<selected_quick_range, from_date, to_date>>
    /\ UNCHANGED <<is_selecting_from, current_field, custom_selection>>

(* DateSelection::previous_quick_range *)
previous_quick_range ==
    /\ DsWalk("previous_quick_range")
    /\ IF selected_quick_range.some
       THEN LET prev == previous_index(selected_quick_range.v)
            IN  /\ selected_quick_range' = Some(prev)
                /\ from_date' = apply_quick_range(prev).from
                /\ to_date' = apply_quick_range(prev).to
       ELSE UNCHANGED <<selected_quick_range, from_date, to_date>>
    /\ UNCHANGED <<is_selecting_from, current_field, custom_selection>>

(* The match of next_field. *)
next_field_match(field) ==
    CASE field = "Year" -> "Month"
      [] field = "Month" -> "Day"
      [] field = "Day" -> "Hour"
      [] field = "Hour" -> "Minute"
      [] field = "Minute" -> "Year"

(* The match of previous_field with Year and Minute as fixed ends. *)
previous_field_match_no_wrap(field) ==
    CASE field = "Year" -> "Year"
      [] field = "Month" -> "Year"
      [] field = "Day" -> "Month"
      [] field = "Hour" -> "Day"
      [] field = "Minute" -> "Hour"

(* The match of previous_field. *)
previous_field_match(field) ==
    CASE field = "Year" -> "Minute"
      [] field = "Month" -> "Year"
      [] field = "Day" -> "Month"
      [] field = "Hour" -> "Day"
      [] field = "Minute" -> "Hour"

(* DateSelection::next_field *)
next_field ==
    /\ DsOp("next_field")
    /\ current_field' = next_field_match(current_field)
    /\ UNCHANGED <<from_date, to_date, is_selecting_from, selected_quick_range,
                   custom_selection>>

(* DateSelection::previous_field *)
previous_field ==
    /\ DsOp("previous_field")
    /\ current_field' = previous_field_match(current_field)
    /\ UNCHANGED <<from_date, to_date, is_selecting_from, selected_quick_range,
                   custom_selection>>

(* adjust_field with a month wrap that carries into the year. *)
adjust_field_carry_year(date, field, increment) ==
    LET delta == IF increment THEN 1 ELSE -1
        total == YearOf(date) * 12 + (MonthOf(date) - 1) + delta
    IN  CASE field = "Year" ->
               unwrap_or(with_year(date, YearOf(date) + delta), date)
          [] field = "Month" ->
               unwrap_or(with_month(with_year(date, total \div 12).v,
                                    (total % 12) + 1), date)
          [] field = "Day" -> date + delta * MinutesPerDay
          [] field = "Hour" -> date + delta * 60
          [] field = "Minute" -> date + delta

(* The match of adjust_current_field: the edited bound after the field
   arithmetic, before the ordering is enforced. *)
adjust_field(date, field, increment) ==
    LET delta == IF increment THEN 1 ELSE -1
    IN  CASE field = "Year" ->
               unwrap_or(with_year(date, YearOf(date) + delta), date)
          [] field = "Month" ->
               LET new_month == rem_euclid(MonthOf(date) + delta, 12)
               IN  unwrap_or(with_month(date, IF new_month = 0 THEN 12
                                              ELSE new_month), date)
          [] field = "Day" -> date + delta * MinutesPerDay
          [] field = "Hour" -> date + delta * 60
          [] field = "Minute" -> date + delta

(* keep_in_order with the clamp left out. *)
keep_in_order_unclamped(from, to, selecting_from) == [from |-> from, to |-> to]

(* keep_in_order moving the bound that is not being edited. *)
keep_in_order_moving_other(from, to, selecting_from) ==
    IF selecting_from /\ from > to THEN [from |-> from, to |-> from]
    ELSE IF ~selecting_from /\ to < from THEN [from |-> to, to |-> to]
    ELSE [from |-> from, to |-> to]

(* "Ensure dates stay in order": the edited bound is clamped to the other. *)
keep_in_order(from, to, selecting_from) ==
    IF selecting_from /\ from > to THEN [from |-> to, to |-> to]
    ELSE IF ~selecting_from /\ to < from THEN [from |-> from, to |-> from]
    ELSE [from |-> from, to |-> to]

(* DateSelection::adjust_current_field *)
adjust_current_field(increment) ==
    /\ DsOp(IF increment THEN "adjust_up" ELSE "adjust_down")
    /\ LET from == IF is_selecting_from
                   THEN adjust_field(from_date, current_field, increment)
                   ELSE from_date
           to   == IF is_selecting_from THEN to_date
                   ELSE adjust_field(to_date, current_field, increment)
           r    == keep_in_order(from, to, is_selecting_from)
       IN  /\ from_date' = r.from
           /\ to_date' = r.to
    /\ UNCHANGED <<is_selecting_from, current_field, selected_quick_range,
                   custom_selection>>

DsNext ==
    \/ ClockTick
    \/ toggle_selection
    \/ toggle_custom
    \/ next_quick_range
    \/ previous_quick_range
    \/ next_field
    \/ previous_field
    \/ \E increment \in BOOLEAN : adjust_current_field(increment)

----------------------------------------------------------------------------
(* LogViewer *)

(* Bounds of the log viewer model. *)
MaxLogs == 4
MaxHeight == 5
MaxScroll == 4
MaxPageSize == 2

(* Result<()> *)
Ok == [ok |-> TRUE, error |-> "none"]
Err(kind) == [ok |-> FALSE, error |-> kind]
(* No call has returned yet. *)
NoResult == [ok |-> FALSE, error |-> "not called"]

(* Messages of the events the log source holds. *)
Messages == << <<"a", " ", "b">>, <<"A", "b">>, <<"d">>, <<"b", "a">> >>

(* A FilteredLogEvent of the source: every field is optional. *)
SourceEvent(i) ==
    [timestamp |-> Some(i),
     message |-> Some(Messages[((i - 1) % Len(Messages)) + 1]),
     ingestion_time |-> Some(i + 1)]

BlankEvent == [timestamp |-> None, message |-> None, ingestion_time |-> None]

(* A page of a paginated answer: its items, and whether a continuation
   token comes with it (every page but the last carries one). *)
Page(items) == [events |-> items]

(* The answers the log source may give: three pages with an empty one in the
   middle; a single page without an events field; one page of MaxLogs
   events. *)
LogSources ==
    { << Page(Some(<<SourceEvent(1)>>)), Page(Some(<<>>)),
         Page(Some(<<SourceEvent(2), BlankEvent>>)) >>,
      << Page(None) >>,
      << Page(Some([i \in 1..MaxLogs |-> SourceEvent(i)])) >> }

(* Filter texts typed into a list screen: empty, one keyword, a keyword in
   upper case, two keywords with surrounding blanks, no match, blanks only,
   the two keywords in the other order, and with one of them repeated. *)
FilterTexts ==
    { <<>>, <<"b">>, <<"A">>, <<" ", "B", " ", "a">>, <<"z", "z", "z">>,
      <<" ">>, <<"a", " ", "b">>, <<"b", " ", "A", " ", "b">> }

(* The source's answer to a request carrying `token` (None: first page). *)
filter_log_events(source, token) ==
    LET i == IF token.some THEN token.v ELSE 1
    IN  [events |-> source[i].events,
         next_token |-> IF i < Len(source) THEN Some(i + 1) ELSE None]

(* OutputLogEvent::builder() ... .build() of load_logs *)
build_event(e) ==
    [timestamp |-> Some(unwrap_or(e.timestamp, 0)),
     message |-> Some(unwrap_or(e.message, <<>>)),
     ingestion_time |-> Some(unwrap_or(e.ingestion_time, 0))]

(* The loop of load_logs with a stop at a page that has no events. *)
RECURSIVE load_logs_loop_stop_on_empty(_, _, _, _)
load_logs_loop_stop_on_empty(source, fail_at, next_token, acc) ==
    LET request == IF next_token.some THEN next_token.v ELSE 1
        response == filter_log_events(source, next_token)
        got == IF response.events.some
               THEN acc \o [k \in DOMAIN response.events.v |->
                               build_event(response.events.v[k])]
               ELSE acc
    IN  IF fail_at = request THEN Err("remote")
        ELSE IF ~response.next_token.some \/ got = acc
             THEN [ok |-> TRUE, logs |-> got]
             ELSE load_logs_loop_stop_on_empty(source, fail_at,
                                               response.next_token, got)

(* The loop of load_logs: requests pages until a response has no token; the
   request numbered fail_at fails (0: none does). *)
RECURSIVE load_logs_loop(_, _, _, _)
load_logs_loop(source, fail_at, next_token, acc) ==
    LET request == IF next_token.some THEN next_token.v ELSE 1
        response == filter_log_events(source, next_token)
        got == IF response.events.some
               THEN acc \o [k \in DOMAIN response.events.v |->
                               build_event(response.events.v[k])]
               ELSE acc
    IN  IF fail_at = request THEN Err("remote")
        ELSE IF ~response.next_token.some
             THEN [ok |-> TRUE, logs |-> got]
             ELSE load_logs_loop(source, fail_at, response.next_token, got)

(* The filter of LogViewer::update_filter over the backing list. *)
lv_filter(all_logs, filter_input) ==
    IF filter_input = <<>> THEN all_logs
    ELSE LET filter_lower == to_lowercase(filter_input)
             keywords == split_whitespace(filter_lower)
             Keep(log) == IF log.message.some
                          THEN all_keywords(to_lowercase(log.message.v), keywords)
                          ELSE FALSE
         IN  SelectSeq(all_logs, Keep)

(* The reset of update_filter selecting the first row of an empty list
   too. *)
lv_reset_selection_always_first(filtered) == Some(0)

(* "Reset selection when filter changes" *)
lv_reset_selection(filtered) == IF filtered = <<>> THEN None ELSE Some(0)

(* LogViewer::new *)
LvNew ==
    /\ lv_source \in LogSources
    /\ cloudwatch_client = FALSE
    /\ logs = <<>>
    /\ filtered_logs = <<>>
    /\ lv_filter_input = <<>>
    /\ scroll_offset = 0
    /\ selected_log = None
    /\ expanded = FALSE
    /\ lv_result = NoResult
    /\ visible_range = None

LvUnused ==
    /\ lv_source = <<>>
    /\ cloudwatch_client = FALSE
    /\ logs = <<>> /\ filtered_logs = <<>> /\ lv_filter_input = <<>>
    /\ scroll_offset = 0 /\ selected_log = None /\ expanded = FALSE
    /\ lv_result = NoResult /\ visible_range = None

(* Bookkeeping common to the log viewer's operations: the range a render
   computed is a temporary of that render. *)
LvOp(op) ==
    /\ active = "logs"
    /\ last' = op
    /\ UNCHANGED <<active, lv_source, dsVars, fsVars, psVars, appVars>>

(* LogViewer::initialize, with load_logs and the update_filter it ends with. *)
initialize(fail_at) ==
    /\ LvOp(CASE fail_at = 0 -> "initialize"
               [] fail_at = 1 -> "initialize failed at the first page"
               [] OTHER -> "initialize failed at a later page")
    /\ cloudwatch_client' = TRUE
    /\ LET r == load_logs_loop(lv_source, fail_at, None, <<>>)
       IN  IF r.ok
           THEN /\ logs' = r.logs
                /\ filtered_logs' = lv_filter(r.logs, lv_filter_input)
                /\ selected_log' =
                       lv_reset_selection(lv_filter(r.logs, lv_filter_input))
                /\ expanded' = FALSE
                /\ lv_result' = Ok
           ELSE /\ lv_result' = r
                /\ UNCHANGED <<logs, filtered_logs, selected_log, expanded>>
    /\ visible_range' = None
    /\ UNCHANGED <<lv_filter_input, scroll_offset>>

(* The caller edits filter_input, then LogViewer::update_filter. *)
lv_update_filter(text) ==
    /\ LvOp("update_filter")
    /\ lv_filter_input' = text
    /\ filtered_logs' = lv_filter(logs, text)
    /\ selected_log' = lv_reset_selection(lv_filter(logs, text))
    /\ expanded' = FALSE
    /\ visible_range' = None
    /\ UNCHANGED <<cloudwatch_client, logs, scroll_offset, lv_result>>

(* LogViewer::scroll_up *)
scroll_up ==
    /\ LvOp("scroll_up")
    /\ IF expanded
       THEN /\ scroll_offset' = saturating_sub(scroll_offset, 1)
            /\ UNCHANGED selected_log
       ELSE IF selected_log.some
       THEN IF selected_log.v > 0
            THEN /\ selected_log' = Some(selected_log.v - 1)
                 /\ scroll_offset' = IF selected_log.v <= scroll_offset
                                     THEN saturating_sub(scroll_offset, 1)
                                     ELSE scroll_offset
            ELSE UNCHANGED <<selected_log, scroll_offset>>
       ELSE IF filtered_logs # <<>>
            THEN /\ selected_log' = Some(0)
                 /\ scroll_offset' = 0
            ELSE UNCHANGED <<selected_log, scroll_offset>>
    /\ visible_range' = None
    /\ UNCHANGED <<cloudwatch_client, logs, filtered_logs, lv_filter_input,
                   expanded, lv_result>>

(* LogViewer::scroll_down *)
scroll_down ==
    /\ LvOp("scroll_down")
    /\ IF expanded
       THEN /\ scroll_offset' = scroll_offset + 1
            /\ UNCHANGED selected_log
       ELSE IF selected_log.some
       THEN IF selected_log.v < saturating_sub(Len(filtered_logs), 1)
            THEN /\ selected_log' = Some(selected_log.v + 1)
                 /\ scroll_offset' = scroll_offset + 1
            ELSE UNCHANGED <<selected_log, scroll_offset>>
       ELSE IF filtered_logs # <<>>
            THEN /\ selected_log' = Some(0)
                 /\ scroll_offset' = 0
            ELSE UNCHANGED <<selected_log, scroll_offset>>
    /\ scroll_offset' <= MaxScroll
    /\ visible_range' = None
    /\ UNCHANGED <<cloudwatch_client, logs, filtered_logs, lv_filter_input,
                   expanded, lv_result>>

(* The offset of update_scroll without "Don't scroll past the end". *)
update_scroll_offset_uncapped(selected, total_logs, visible_height) ==
    LET middle == visible_height \div 2
    IN  IF selected >= middle THEN saturating_sub(selected, middle) ELSE 0

(* The offset update_scroll computes for a selection, a list length and a
   height. *)
update_scroll_offset(selected, total_logs, visible_height) ==
    LET middle == visible_height \div 2
        centred == IF selected >= middle
                   THEN saturating_sub(selected, middle)
                   ELSE 0
        max_scroll == saturating_sub(total_logs, visible_height)
    IN  Min(centred, max_scroll)

(* LogViewer::update_scroll *)
update_scroll(visible_height) ==
    /\ LvOp("update_scroll")
    /\ IF selected_log.some
       THEN scroll_offset' = update_scroll_offset(selected_log.v,
                                                  Len(filtered_logs),
                                                  visible_height)
       ELSE UNCHANGED scroll_offset
    /\ visible_range' = None
    /\ UNCHANGED <<cloudwatch_client, logs, filtered_logs, lv_filter_input,
                   selected_log, expanded, lv_result>>

(* toggle_expand keeping the line offset. *)
toggle_expand_keeping_offset ==
    /\ LvOp("toggle_expand")
    /\ expanded' = ~expanded
    /\ visible_range' = None
    /\ UNCHANGED <<cloudwatch_client, logs, filtered_logs, lv_filter_input,
                   selected_log, lv_result, scroll_offset>>

(* LogViewer::toggle_expand *)
toggle_expand ==
    /\ LvOp("toggle_expand")
    /\ expanded' = ~expanded
    /\ scroll_offset' = 0
    /\ visible_range' = None
    /\ UNCHANGED <<cloudwatch_client, logs, filtered_logs, lv_filter_input,
                   selected_log, lv_result>>

(* LogViewer::page_up *)
page_up(page_size) ==
    /\ LvOp("page_up")
    /\ scroll_offset' = saturating_sub(scroll_offset, page_size)
    /\ visible_range' = None
    /\ UNCHANGED <<cloudwatch_client, logs, filtered_logs, lv_filter_input,
                   selected_log, expanded, lv_result>>

(* LogViewer::page_down *)
page_down(page_size) ==
    /\ LvOp("page_down")
    /\ IF filtered_logs # <<>>
       THEN scroll_offset' = Min(scroll_offset + page_size,
                                 Len(filtered_logs) - 1)
       ELSE UNCHANGED scroll_offset
    /\ visible_range' = None
    /\ UNCHANGED <<cloudwatch_client, logs, filtered_logs, lv_filter_input,
                   selected_log, expanded, lv_result>>

(* get_visible_range centring by the whole height instead of half of it. *)
get_visible_range_full_height(selected, total_logs, visible_height) ==
    IF selected.some
    THEN LET start == IF selected.v + visible_height >= total_logs
                      THEN saturating_sub(total_logs, visible_height)
                      ELSE saturating_sub(selected.v, visible_height)
         IN  [start |-> start, end |-> Min(start + visible_height, total_logs)]
    ELSE [start |-> 0, end |-> Min(visible_height, total_logs)]

(* get_visible_range with the end not cut at the length of the list. *)
get_visible_range_uncut_end(selected, total_logs, visible_height) ==
    LET half_height == visible_height \div 2
    IN  IF selected.some
        THEN LET ideal_start == saturating_sub(selected.v, half_height)
                 start == IF selected.v + half_height >= total_logs
                          THEN saturating_sub(total_logs, visible_height)
                          ELSE ideal_start
             IN  [start |-> start, end |-> start + visible_height]
        ELSE [start |-> 0, end |-> visible_height]

(* LogViewer::get_visible_range: (start, end) for a selection, a list length
   and a height. *)
get_visible_range(selected, total_logs, visible_height) ==
    LET half_height == visible_height \div 2
    IN  IF selected.some
        THEN LET ideal_start == saturating_sub(selected.v, half_height)
                 start == IF selected.v + half_height >= total_logs
                          THEN saturating_sub(total_logs, visible_height)
                          ELSE ideal_start
                 end == Min(start + visible_height, total_logs)
             IN  [start |-> start, end |-> end]
        ELSE [start |-> 0, end |-> Min(visible_height, total_logs)]

(* A render asks for the visible range at some height. *)
render_visible_range(visible_height) ==
    /\ LvOp("get_visible_range")
    /\ visible_range' =
           Some([height |-> visible_height,
                 range |-> get_visible_range(selected_log, Len(filtered_logs),
                                             visible_height)])
    /\ UNCHANGED <<cloudwatch_client, logs, filtered_logs, lv_filter_input,
                   scroll_offset, selected_log, expanded, lv_result>>

LvNext ==
    \/ \E fail_at \in 0..Len(lv_source) : initialize(fail_at)
    \/ \E text \in FilterTexts : lv_update_filter(text)
    \/ scroll_up
    \/ scroll_down
    \/ \E h \in 0..MaxHeight : update_scroll(h)
    \/ toggle_expand
    \/ \E n \in 1..MaxPageSize : page_up(n)
    \/ \E n \in 1..MaxPageSize : page_down(n)
    \/ \E h \in 0..MaxHeight : render_visible_range(h)

----------------------------------------------------------------------------
(* FunctionSelection and update_functions_in_background *)

(* Bound: calls of load_functions on one FunctionSelection. *)
MaxLoads == 2

(* The pages the function source may answer with; an entry is the
   Option<String> function_name of a FunctionConfiguration.  Two pages; three
   pages with an empty one in the middle, an unnamed function and names out
   of order; a single empty page. *)
FnSourcePages ==
    { << <<Some(<<"b">>)>>, <<Some(<<"c">>), Some(<<"d">>)>> >>,
      << <<Some(<<"d">>)>>, <<>>, <<Some(<<"A", "b">>), None, Some(<<"a">>)>> >>,
      << <<>> >> }

(* The cache entry found at construction: none, or a list written earlier. *)
InitCaches == { None, Some(<< <<"a">>, <<"b">> >>) }

(* The source's answer to list_functions with `marker` (None: first page). *)
list_functions(pages, marker) ==
    LET i == IF marker.some THEN marker.v ELSE 1
    IN  [functions |-> pages[i],
         next_marker |-> IF i < Len(pages) THEN Some(i + 1) ELSE None]

(* "for function in function_list { if let Some(name) = ... push }" *)
RECURSIVE push_names(_, _)
push_names(functions, function_list) ==
    IF function_list = <<>> THEN functions
    ELSE push_names(IF Head(function_list).some
                    THEN Append(functions, Head(function_list).v)
                    ELSE functions,
                    Tail(function_list))

(* The fetch loop with a stop at a page that holds no function. *)
RECURSIVE fetch_loop_stop_on_empty(_, _, _, _)
fetch_loop_stop_on_empty(pages, fail_at, next_marker, functions) ==
    LET request == IF next_marker.some THEN next_marker.v ELSE 1
        response == list_functions(pages, next_marker)
        got == push_names(functions, response.functions)
    IN  IF fail_at = request THEN Err("remote")
        ELSE IF ~response.next_marker.some \/ response.functions = <<>>
             THEN [ok |-> TRUE, functions |-> got]
             ELSE fetch_loop_stop_on_empty(pages, fail_at,
                                           response.next_marker, got)

(* The fetch loop that keeps the pages fetched before a failure. *)
RECURSIVE fetch_loop_keep_partial(_, _, _, _)
fetch_loop_keep_partial(pages, fail_at, next_marker, functions) ==
    LET request == IF next_marker.some THEN next_marker.v ELSE 1
        response == list_functions(pages, next_marker)
        got == push_names(functions, response.functions)
    IN  IF fail_at = request THEN [ok |-> TRUE, functions |-> functions]
        ELSE IF ~response.next_marker.some
             THEN [ok |-> TRUE, functions |-> got]
             ELSE fetch_loop_keep_partial(pages, fail_at,
                                          response.next_marker, got)

(* The fetch loop of load_functions_from_aws and of
   update_functions_in_background: requests pages until a response has no
   marker; the request numbered fail_at fails (0: none does). *)
RECURSIVE fetch_loop(_, _, _, _)
fetch_loop(pages, fail_at, next_marker, functions) ==
    LET request == IF next_marker.some THEN next_marker.v ELSE 1
        response == list_functions(pages, next_marker)
        got == push_names(functions, response.functions)
    IN  IF fail_at = request THEN Err("remote")
        ELSE IF ~response.next_marker.some
             THEN [ok |-> TRUE, functions |-> got]
             ELSE fetch_loop(pages, fail_at, response.next_marker, got)

(* load_cached_functions: the outcomes of reading the cache entry.  The call
   site takes a Result<Option<Vec<String>>>: a failure, or the entry. *)
load_cached_functions == { Err("cache read") } \cup { [ok |-> TRUE, entry |-> cache] }

(* cache_functions: the outcomes of writing the cache entry.  The call site
   takes a Result<()>: a failure that leaves the entry, or the entry
   rewritten. *)
cache_functions(functions) ==
    { [result |-> Err("cache write"), entry |-> cache],
      [result |-> Ok, entry |-> Some(functions)] }

(* FunctionSelection::new *)
FsNew ==
    /\ fs_env \in [pages : FnSourcePages, cached : InitCaches]
    /\ cache = fs_env.cached
    /\ lambda_functions = <<>>
    /\ filtered_functions = <<>>
    /\ selected_index = 0
    /\ fs_filter_input = <<>>
    /\ list_state = None
    /\ ui = "idle"
    /\ ui_functions = <<>>
    /\ load_result = NoResult
    /\ fs_loads = 0
    /\ tasks = <<>>

FsUnused ==
    /\ fs_env = [pages |-> <<>>, cached |-> None]
    /\ cache = None
    /\ lambda_functions = <<>> /\ filtered_functions = <<>>
    /\ selected_index = 0 /\ fs_filter_input = <<>> /\ list_state = None
    /\ ui = "idle" /\ ui_functions = <<>> /\ load_result = NoResult
    /\ fs_loads = 0 /\ tasks = <<>>

(* Bookkeeping common to the steps of the function screen. *)
FsOp(op) ==
    /\ active = "functions"
    /\ last' = op
    /\ UNCHANGED <<active, fs_env, dsVars, lvVars, psVars, appVars>>

(* A task as tokio::spawn creates it. *)
NewTask == [pc |-> "fetch", functions |-> <<>>, result |-> NoResult]

(* FunctionSelection::load_functions up to the cache read: a read failure is
   returned (the ? of the call), a hit goes on to install the cached list, a
   miss goes on to load_functions_from_aws. *)
load_functions ==
    /\ FsOp("load_functions")
    /\ ui = "idle"
    /\ fs_loads < MaxLoads
    /\ fs_loads' = fs_loads + 1
    /\ \E r \in load_cached_functions :
           IF ~r.ok
           THEN /\ load_result' = r
                /\ UNCHANGED <<ui, ui_functions>>
           ELSE IF r.entry.some
           THEN /\ ui' = "hit_clear"
                /\ ui_functions' = r.entry.v
                /\ load_result' = NoResult
           ELSE /\ ui' = "aws_fetch"
                /\ ui_functions' = <<>>
                /\ load_result' = NoResult
    /\ UNCHANGED <<cache, lambda_functions, filtered_functions, selected_index,
                   fs_filter_input, list_state, tasks>>

(* "self.lambda_functions.lock().unwrap().clear();" of either path: one
   acquisition of the lock. *)
load_clear ==
    /\ FsOp("clear")
    /\ ui \in {"hit_clear", "aws_clear"}
    /\ lambda_functions' = <<>>
    /\ ui' = IF ui = "hit_clear" THEN "hit_extend" ELSE "aws_extend"
    /\ UNCHANGED <<cache, filtered_functions, selected_index, fs_filter_input,
                   list_state, ui_functions, load_result, fs_loads, tasks>>

(* "self.lambda_functions.lock().unwrap().extend(..);" of either path: a
   second acquisition of the lock. *)
load_extend ==
    /\ FsOp("extend")
    /\ ui \in {"hit_extend", "aws_extend"}
    /\ lambda_functions' = lambda_functions \o ui_functions
    /\ ui_functions' = <<>>
    /\ ui' = IF ui = "hit_extend" THEN "hit_clone" ELSE "aws_clone"
    /\ UNCHANGED <<cache, filtered_functions, selected_index, fs_filter_input,
                   list_state, load_result, fs_loads, tasks>>

(* load_hit_return without its return: the load goes on to the remote
   fetch of load_functions_from_aws. *)
load_hit_falls_through ==
    /\ FsOp("load_functions returned")
    /\ ui = "hit_clone"
    /\ filtered_functions' = lambda_functions
    /\ list_state' = Some(0)
    /\ tasks' = Append(tasks, NewTask)
    /\ ui' = "aws_fetch"
    /\ UNCHANGED <<cache, lambda_functions, selected_index, fs_filter_input,
                   ui_functions, fs_loads, load_result>>

(* The rest of the cache-hit path: the filtered view is a clone taken under
   a third acquisition of the lock, the first row is selected, the refresh
   task is spawned and Ok(()) returned. *)
load_hit_return ==
    /\ FsOp("load_functions returned")
    /\ ui = "hit_clone"
    /\ filtered_functions' = lambda_functions
    /\ list_state' = Some(0)
    /\ tasks' = Append(tasks, NewTask)
    /\ load_result' = Ok
    /\ ui' = "idle"
    /\ UNCHANGED <<cache, lambda_functions, selected_index, fs_filter_input,
                   ui_functions, fs_loads>>

(* load_functions_from_aws: the fetch loop; a failed request is returned. *)
aws_fetch(fail_at) ==
    /\ FsOp(CASE fail_at = 0 -> "aws fetch"
               [] fail_at = 1 -> "aws fetch failed at the first page"
               [] OTHER -> "aws fetch failed at a later page")
    /\ ui = "aws_fetch"
    /\ LET r == fetch_loop(fs_env.pages, fail_at, None, <<>>)
       IN  IF r.ok
           THEN /\ ui_functions' = r.functions
                /\ ui' = "aws_sort"
                /\ UNCHANGED load_result
           ELSE /\ ui_functions' = <<>>
                /\ ui' = "idle"
                /\ load_result' = r
    /\ UNCHANGED <<cache, lambda_functions, filtered_functions, selected_index,
                   fs_filter_input, list_state, fs_loads, tasks>>

(* load_functions_from_aws: functions.sort() *)
aws_sort ==
    /\ FsOp("aws sort")
    /\ ui = "aws_sort"
    /\ ui_functions' = sort(ui_functions)
    /\ ui' = "aws_cache"
    /\ UNCHANGED <<cache, lambda_functions, filtered_functions, selected_index,
                   fs_filter_input, list_state, load_result, fs_loads, tasks>>

(* load_functions_from_aws: cache_functions(..)?  A write failure is
   returned before the list is touched. *)
aws_cache ==
    /\ FsOp("aws cache")
    /\ ui = "aws_cache"
    /\ \E w \in cache_functions(ui_functions) :
           /\ cache' = w.entry
           /\ IF w.result.ok
              THEN /\ ui' = "aws_clear"
                   /\ UNCHANGED <<ui_functions, load_result>>
              ELSE /\ ui' = "idle"
                   /\ ui_functions' = <<>>
                   /\ load_result' = w.result
    /\ UNCHANGED <<lambda_functions, filtered_functions, selected_index,
                   fs_filter_input, list_state, fs_loads, tasks>>

(* load_aws_return that also spawns a refresh task, as the cached path
   does. *)
load_aws_return_spawning ==
    /\ FsOp("load_functions returned")
    /\ ui = "aws_clone"
    /\ filtered_functions' = lambda_functions
    /\ list_state' = Some(0)
    /\ load_result' = Ok
    /\ ui' = "idle"
    /\ tasks' = Append(tasks, NewTask)
    /\ UNCHANGED <<cache, lambda_functions, selected_index, fs_filter_input,
                   ui_functions, fs_loads>>

(* The rest of load_functions_from_aws: clone under the lock, select the
   first row, Ok(()). *)
load_aws_return ==
    /\ FsOp("load_functions returned")
    /\ ui = "aws_clone"
    /\ filtered_functions' = lambda_functions
    /\ list_state' = Some(0)
    /\ load_result' = Ok
    /\ ui' = "idle"
    /\ UNCHANGED <<cache, lambda_functions, selected_index, fs_filter_input,
                   ui_functions, fs_loads, tasks>>

(* update_functions_in_background: the fetch loop. *)
task_fetch(i, fail_at) ==
    /\ FsOp(CASE fail_at = 0 -> "task fetch"
               [] fail_at = 1 -> "task fetch failed at the first page"
               [] OTHER -> "task fetch failed at a later page")
    /\ tasks[i].pc = "fetch"
    /\ LET r == fetch_loop(fs_env.pages, fail_at, None, <<>>)
       IN  tasks' = [tasks EXCEPT ![i] =
                        IF r.ok
                        THEN [pc |-> "sort", functions |-> r.functions,
                              result |-> NoResult]
                        ELSE [pc |-> "failed", functions |-> <<>>,
                              result |-> r]]
    /\ UNCHANGED <<cache, lambda_functions, filtered_functions, selected_index,
                   fs_filter_input, list_state, ui, ui_functions, load_result,
                   fs_loads>>

(* update_functions_in_background: functions.sort() *)
task_sort(i) ==
    /\ FsOp("task sort")
    /\ tasks[i].pc = "sort"
    /\ tasks' = [tasks EXCEPT ![i].functions = sort(@), ![i].pc = "cache"]
    /\ UNCHANGED <<cache, lambda_functions, filtered_functions, selected_index,
                   fs_filter_input, list_state, ui, ui_functions, load_result,
                   fs_loads>>

(* task_cache with the shared list replaced before the cache is written. *)
task_cache_after_install(i) ==
    /\ FsOp("task cache")
    /\ tasks[i].pc = "cache"
    /\ lambda_functions' = tasks[i].functions
    /\ \E w \in cache_functions(tasks[i].functions) :
           /\ cache' = w.entry
           /\ tasks' = [tasks EXCEPT ![i] =
                           IF w.result.ok
                           THEN [@ EXCEPT !.pc = "install"]
                           ELSE [pc |-> "failed", functions |-> <<>>,
                                 result |-> w.result]]
    /\ UNCHANGED <<filtered_functions, selected_index,
                   fs_filter_input, list_state, ui, ui_functions, load_result,
                   fs_loads>>

(* update_functions_in_background: cache_functions(..)? *)
task_cache(i) ==
    /\ FsOp("task cache")
    /\ tasks[i].pc = "cache"
    /\ \E w \in cache_functions(tasks[i].functions) :
           /\ cache' = w.entry
           /\ tasks' = [tasks EXCEPT ![i] =
                           IF w.result.ok
                           THEN [@ EXCEPT !.pc = "install"]
                           ELSE [pc |-> "failed", functions |-> <<>>,
                                 result |-> w.result]]
    /\ UNCHANGED <<lambda_functions, filtered_functions, selected_index,
                   fs_filter_input, list_state, ui, ui_functions, load_result,
                   fs_loads>>

(* install without the clear: the fetched names join the old ones. *)
install_without_clear(current, functions) == current \o functions

(* The list a task leaves behind the lock: clear and extend under one
   guard. *)
install(current, functions) == functions

(* update_functions_in_background: "Update the shared functions list". *)
task_install(i) ==
    /\ FsOp("task install")
    /\ tasks[i].pc = "install"
    /\ lambda_functions' = install(lambda_functions, tasks[i].functions)
    /\ tasks' = [tasks EXCEPT ![i] =
                    [pc |-> "done", functions |-> <<>>, result |-> Ok]]
    /\ UNCHANGED <<cache, filtered_functions, selected_index, fs_filter_input,
                   list_state, ui, ui_functions, load_result, fs_loads>>

(* The filter of FunctionSelection::update_filter over a clone of the list. *)
fs_filter(functions, filter_input) ==
    IF filter_input = <<>> THEN functions
    ELSE LET filter_lower == to_lowercase(filter_input)
             keywords == split_whitespace(filter_lower)
             Keep(name) == all_keywords(to_lowercase(name), keywords)
         IN  SelectSeq(functions, Keep)

(* The caller edits filter_input, then FunctionSelection::update_filter. *)
fs_update_filter(text) ==
    /\ FsOp("update_filter")
    /\ ui = "idle"
    /\ fs_filter_input' = text
    /\ filtered_functions' = fs_filter(lambda_functions, text)
    /\ selected_index' = 0
    /\ list_state' = Some(0)
    /\ UNCHANGED <<cache, lambda_functions, ui, ui_functions, load_result,
                   fs_loads, tasks>>

(* FunctionSelection::next *)
fs_next ==
    /\ FsOp("next")
    /\ ui = "idle"
    /\ IF filtered_functions # <<>>
       THEN /\ selected_index' = Min(selected_index + 1,
                                     Len(filtered_functions) - 1)
            /\ list_state' = Some(selected_index')
       ELSE UNCHANGED <<selected_index, list_state>>
    /\ UNCHANGED <<cache, lambda_functions, filtered_functions,
                   fs_filter_input, ui, ui_functions, load_result, fs_loads,
                   tasks>>

(* FunctionSelection::previous *)
fs_previous ==
    /\ FsOp("previous")
    /\ ui = "idle"
    /\ IF filtered_functions # <<>>
       THEN /\ selected_index' = saturating_sub(selected_index, 1)
            /\ list_state' = Some(selected_index')
       ELSE UNCHANGED <<selected_index, list_state>>
    /\ UNCHANGED <<cache, lambda_functions, filtered_functions,
                   fs_filter_input, ui, ui_functions, load_result, fs_loads,
                   tasks>>

FsNext ==
    \/ load_functions
    \/ load_clear
    \/ load_extend
    \/ load_hit_return
    \/ \E fail_at \in 0..Len(fs_env.pages) : aws_fetch(fail_at)
    \/ aws_sort
    \/ aws_cache
    \/ load_aws_return
    \/ \E i \in DOMAIN tasks, fail_at \in 0..Len(fs_env.pages) :
           task_fetch(i, fail_at)
    \/ \E i \in DOMAIN tasks : task_sort(i)
    \/ \E i \in DOMAIN tasks : task_cache(i)
    \/ \E i \in DOMAIN tasks : task_install(i)
    \/ \E text \in FilterTexts : fs_update_filter(text)
    \/ fs_next
    \/ fs_previous

----------------------------------------------------------------------------
(* ProfileSelection *)

(* Bound: profiles the configuration lists. *)
MaxProfiles == 3

(* A Profile of the configuration. *)
Profile(i) == [name |-> i, region |-> i % 2]

(* ProfileSelection::new *)
PsNew ==
    /\ \E n \in 0..MaxProfiles : profiles = [i \in 1..n |-> Profile(i)]
    /\ profile_list_state = IF profiles # <<>> THEN Some(0) ELSE None

PsUnused ==
    /\ profiles = <<>>
    /\ profile_list_state = None

PsOp(op) ==
    /\ active = "profiles"
    /\ last' = op
    /\ UNCHANGED <<active, profiles, dsVars, lvVars, fsVars, appVars>>

(* ProfileSelection::next *)
ps_next ==
    /\ PsOp("next")
    /\ IF profiles # <<>>
       THEN LET current == unwrap_or(profile_list_state, 0)
                next == Min(current + 1, Len(profiles) - 1)
            IN  profile_list_state' = Some(next)
       ELSE UNCHANGED profile_list_state

(* ProfileSelection::previous *)
ps_previous ==
    /\ PsOp("previous")
    /\ IF profiles # <<>>
       THEN LET current == unwrap_or(profile_list_state, 0)
                next == saturating_sub(current, 1)
            IN  profile_list_state' = Some(next)
       ELSE UNCHANGED profile_list_state

PsNext ==
    \/ ps_next
    \/ ps_previous

----------------------------------------------------------------------------
(* App and the key handling of main (src/src/main.rs) *)

(* Bounds: keys read by the main loop, length of the filter text. *)
MaxKeys == 6
MaxFilterLen == 2

(* The characters typed into the filter ('q' quits and is never typed). *)
KeyChars == {"b", "z"}

(* App::fetch_lambda_functions: every page until a response has no marker;
   the names are returned in the order received. *)
fetch_lambda_functions(pages, fail_at) == fetch_loop(pages, fail_at, None, <<>>)

(* The filter of App::update_filter. *)
app_filter(functions, filter_input) ==
    LET keywords == split_whitespace(to_lowercase(filter_input))
        Keep(f) == all_keywords(to_lowercase(f), keywords)
    IN  SelectSeq(functions, Keep)

(* What read_aws_profiles can find at config.toml: no file, a file that
   cannot be read, a file that is not a valid profile table, or a valid
   table of 0..2 profiles. *)
ProfileFiles ==
    { [kind |-> k, profiles |-> <<>>] :
          k \in {"absent", "unreadable", "malformed"} }
        \cup { [kind |-> "valid", profiles |-> [i \in 1..n |-> Profile(i)]] :
                  n \in 0..2 }

(* toml_parser::read_aws_profiles *)
read_aws_profiles(file) ==
    CASE file.kind = "absent" -> [ok |-> TRUE, profiles |-> <<>>]
      [] file.kind = "unreadable" -> Err("read config.toml")
      [] file.kind = "malformed" -> Err("parse config.toml")
      [] OTHER -> [ok |-> TRUE, profiles |-> file.profiles]

(* App::new, with Config::new: an error of read_aws_profiles is returned
   through both, and main returns it before the loop is entered. *)
AppNew ==
    /\ \E file \in ProfileFiles, pages \in FnSourcePages :
           LET r == read_aws_profiles(file)
           IN  /\ app_env = [file |-> file,
                             profiles |-> IF r.ok THEN r.profiles ELSE <<>>,
                             pages |-> pages]
               /\ app_exit = IF r.ok THEN NoResult ELSE r
    /\ app_state = "ProfileSelection"
    /\ app_profile_list_state =
           IF app_env.profiles # <<>> THEN Some(0) ELSE None
    /\ app_selected_profile = None
    /\ app_lambda_functions = <<>>
    /\ app_filtered_functions = <<>>
    /\ app_selected_index = 0
    /\ app_filter_input = <<>>
    /\ app_list_state = None
    /\ app_keys = 0

AppUnused ==
    /\ app_env = [file |-> [kind |-> "absent", profiles |-> <<>>],
                  profiles |-> <<>>, pages |-> <<>>]
    /\ app_state = "ProfileSelection" /\ app_exit = NoResult
    /\ app_profile_list_state = None /\ app_selected_profile = None
    /\ app_lambda_functions = <<>> /\ app_filtered_functions = <<>>
    /\ app_selected_index = 0 /\ app_filter_input = <<>>
    /\ app_list_state = None /\ app_keys = 0

(* One turn of the main loop that reads a key while on screen `state`. *)
AppKey(state, key) ==
    /\ active = "app"
    /\ app_exit = NoResult
    /\ app_state = state
    /\ app_keys < MaxKeys
    /\ app_keys' = app_keys + 1
    /\ last' = key
    /\ UNCHANGED <<active, app_env, dsVars, lvVars, fsVars, psVars>>

(* key_quit with the arm of the profile screen only. *)
key_quit_on_profiles_only ==
    /\ AppKey("ProfileSelection", "q")
    /\ app_exit' = Ok
    /\ UNCHANGED <<app_state, app_profile_list_state, app_selected_profile,
                   app_lambda_functions, app_filtered_functions,
                   app_selected_index, app_filter_input, app_list_state>>

(* KeyCode::Char('q') on either screen: break. *)
key_quit ==
    /\ \E state \in {"ProfileSelection", "FunctionList"} : AppKey(state, "q")
    /\ app_exit' = Ok
    /\ UNCHANGED <<app_state, app_profile_list_state, app_selected_profile,
                   app_lambda_functions, app_filtered_functions,
                   app_selected_index, app_filter_input, app_list_state>>

(* A key the screen has no arm for ("_ => {}"). *)
key_other ==
    /\ \E state \in {"ProfileSelection", "FunctionList"} :
           AppKey(state, "other")
    /\ UNCHANGED <<app_state, app_exit, app_profile_list_state,
                   app_selected_profile, app_lambda_functions,
                   app_filtered_functions, app_selected_index,
                   app_filter_input, app_list_state>>

(* ProfileSelection, KeyCode::Up *)
profile_up ==
    /\ AppKey("ProfileSelection", "Up")
    /\ IF app_env.profiles # <<>>
       THEN LET current == unwrap_or(app_profile_list_state, 0)
            IN  app_profile_list_state' = Some(saturating_sub(current, 1))
       ELSE UNCHANGED app_profile_list_state
    /\ UNCHANGED <<app_state, app_exit, app_selected_profile,
                   app_lambda_functions, app_filtered_functions,
                   app_selected_index, app_filter_input, app_list_state>>

(* ProfileSelection, KeyCode::Down *)
profile_down ==
    /\ AppKey("ProfileSelection", "Down")
    /\ IF app_env.profiles # <<>>
       THEN LET current == unwrap_or(app_profile_list_state, 0)
            IN  app_profile_list_state' =
                    Some(Min(current + 1, Len(app_env.profiles) - 1))
       ELSE UNCHANGED app_profile_list_state
    /\ UNCHANGED <<app_state, app_exit, app_selected_profile,
                   app_lambda_functions, app_filtered_functions,
                   app_selected_index, app_filter_input, app_list_state>>

(* App::select_profile, and the ? of its caller: a failed fetch ends main
   with the error. *)
select_profile(profile, fail_at) ==
    /\ app_selected_profile' = Some(profile)
    /\ LET r == fetch_lambda_functions(app_env.pages, fail_at)
       IN  IF r.ok
           THEN /\ app_lambda_functions' = r.functions
                /\ app_filtered_functions' = r.functions
                /\ app_state' = "FunctionList"
                /\ app_list_state' = Some(0)
                /\ UNCHANGED app_exit
           ELSE /\ app_exit' = r
                /\ UNCHANGED <<app_lambda_functions, app_filtered_functions,
                               app_state, app_list_state>>
    /\ UNCHANGED <<app_profile_list_state, app_selected_index,
                   app_filter_input>>

(* ProfileSelection, KeyCode::Enter *)
profile_enter(fail_at) ==
    /\ AppKey("ProfileSelection",
              IF fail_at = 0 THEN "Enter" ELSE "Enter, fetch failed")
    /\ IF app_profile_list_state.some
       THEN select_profile(app_env.profiles[app_profile_list_state.v + 1],
                           fail_at)
       ELSE /\ fail_at = 0
            /\ UNCHANGED <<app_state, app_exit, app_profile_list_state,
                           app_selected_profile, app_lambda_functions,
                           app_filtered_functions, app_selected_index,
                           app_filter_input, app_list_state>>

(* FunctionList, KeyCode::Esc *)
function_esc ==
    /\ AppKey("FunctionList", "Esc")
    /\ app_state' = "ProfileSelection"
    /\ UNCHANGED <<app_exit, app_profile_list_state, app_selected_profile,
                   app_lambda_functions, app_filtered_functions,
                   app_selected_index, app_filter_input, app_list_state>>

(* FunctionList, KeyCode::Up *)
function_up ==
    /\ AppKey("FunctionList", "Up")
    /\ IF app_filtered_functions # <<>>
       THEN /\ app_selected_index' = saturating_sub(app_selected_index, 1)
            /\ app_list_state' = Some(app_selected_index')
       ELSE UNCHANGED <<app_selected_index, app_list_state>>
    /\ UNCHANGED <<app_state, app_exit, app_profile_list_state,
                   app_selected_profile, app_lambda_functions,
                   app_filtered_functions, app_filter_input>>

(* FunctionList, KeyCode::Down *)
function_down ==
    /\ AppKey("FunctionList", "Down")
    /\ IF app_filtered_functions # <<>>
       THEN /\ app_selected_index' =
                   Min(app_selected_index + 1, Len(app_filtered_functions) - 1)
            /\ app_list_state' = Some(app_selected_index')
       ELSE UNCHANGED <<app_selected_index, app_list_state>>
    /\ UNCHANGED <<app_state, app_exit, app_profile_list_state,
                   app_selected_profile, app_lambda_functions,
                   app_filtered_functions, app_filter_input>>

(* App::update_filter, for the filter text the key handler has just set. *)
app_update_filter(text) ==
    /\ app_filter_input' = text
    /\ app_filtered_functions' = app_filter(app_lambda_functions, text)
    /\ app_selected_index' = 0
    /\ app_list_state' = Some(0)
    /\ UNCHANGED <<app_state, app_exit, app_profile_list_state,
                   app_selected_profile, app_lambda_functions>>

(* FunctionList, KeyCode::Char(c) *)
function_char(c) ==
    /\ AppKey("FunctionList", "Char")
    /\ Len(app_filter_input) < MaxFilterLen
    /\ app_update_filter(Append(app_filter_input, c))

(* FunctionList, KeyCode::Backspace: String::pop on an empty text does
   nothing. *)
function_backspace ==
    /\ AppKey("FunctionList", "Backspace")
    /\ app_update_filter(IF app_filter_input = <<>> THEN <<>>
                         ELSE SubSeq(app_filter_input, 1,
                                     Len(app_filter_input) - 1))

AppNext ==
    \/ key_quit
    \/ key_other
    \/ profile_up
    \/ profile_down
    \/ \E fail_at \in 0..Len(app_env.pages) : profile_enter(fail_at)
    \/ function_esc
    \/ function_up
    \/ function_down
    \/ \E c \in KeyChars : function_char(c)
    \/ function_backspace

----------------------------------------------------------------------------
Init ==
    /\ active \in {"date", "logs", "functions", "profiles", "app"}
    /\ last = "new"
    /\ IF active = "date" THEN DsNew ELSE DsUnused
    /\ IF active = "logs" THEN LvNew ELSE LvUnused
    /\ IF active = "functions" THEN FsNew ELSE FsUnused
    /\ IF active = "profiles" THEN PsNew ELSE PsUnused
    /\ IF active = "app" THEN AppNew ELSE AppUnused

Next ==
    \/ DsNext
    \/ LvNext
    \/ FsNext
    \/ PsNext
    \/ AppNext

Spec == Init /\ [][Next]_vars

(* The steps the program takes by itself once a load has been started: the
   rest of the load on the UI thread and the spawned refresh tasks.  The
   other steps wait for a key press. *)
ProgramStep ==
    \/ load_clear
    \/ load_extend
    \/ load_hit_return
    \/ \E fail_at \in 0..Len(fs_env.pages) : aws_fetch(fail_at)
    \/ aws_sort
    \/ aws_cache
    \/ load_aws_return
    \/ \E i \in DOMAIN tasks, fail_at \in 0..Len(fs_env.pages) :
           task_fetch(i, fail_at)
    \/ \E i \in DOMAIN tasks : task_sort(i)
    \/ \E i \in DOMAIN tasks : task_cache(i)
    \/ \E i \in DOMAIN tasks : task_install(i)

(* The steps of a load that wait for nothing outside the process: the
   statements on the shared list and the return of the cache-hit path. *)
LocalLoadStep ==
    \/ load_clear
    \/ load_extend
    \/ load_hit_return

(* The runtime keeps running the local statements of an awaited load; the
   remote source may never answer. *)
LocalFairSpec == Spec /\ WF_vars(LocalLoadStep)

(* The runtime keeps running an awaited load and a spawned task. *)
FairSpec == Spec /\ WF_vars(ProgramStep)

----------------------------------------------------------------------------
(* Properties *)

(* C1: after construction and after every operation of the date-range
   editor, in any order, from_date <= to_date. *)
C1_FromBeforeTo == active = "date" => from_date <= to_date

(* C1 witness: an adjustment of the from bound overshot to_date and was
   clamped onto it. *)
C1_Witness ==
    /\ active = "date"
    /\ last = "adjust_up"
    /\ is_selecting_from
    /\ custom_selection
    /\ from_date = to_date

(* The concatenation of a sequence of sequences. *)
RECURSIVE Concat(_)
Concat(seqs) == IF seqs = <<>> THEN <<>> ELSE Head(seqs) \o Concat(Tail(seqs))

IsSome(o) == o.some

(* The names a page of functions carries, in its order. *)
NamesOf(page) ==
    LET named == SelectSeq(page, IsSome)
    IN  [k \in DOMAIN named |-> named[k].v]

(* Every name of every page of a function source, in request order. *)
AllNames(pages) == Concat([k \in DOMAIN pages |-> NamesOf(pages[k])])

(* Every event of every page of a log source, in request order. *)
AllLogs(source) ==
    Concat([k \in DOMAIN source |->
               IF source[k].events.some
               THEN [j \in DOMAIN source[k].events.v |->
                        build_event(source[k].events.v[j])]
               ELSE <<>>])

(* The lists a reader of the shared function list may find whole: the list
   the cache held at construction and the sorted result of a full fetch. *)
CompleteLists ==
    {sort(AllNames(fs_env.pages))}
        \cup (IF fs_env.cached.some THEN {fs_env.cached.v} ELSE {})

(* C2 as stated: for a selection inside a non-empty list and every height,
   zero included, get_visible_range returns start <= selected < end and
   end - start <= visible_height. *)
C2_SelectionVisibleAtEveryHeight ==
    (/\ active = "logs"
     /\ visible_range.some
     /\ selected_log.some
     /\ Len(filtered_logs) > 0
     /\ selected_log.v < Len(filtered_logs))
    => LET r == visible_range.v.range
       IN  /\ r.start <= selected_log.v
           /\ selected_log.v < r.end
           /\ r.end - r.start <= visible_range.v.height

(* C2 amended: the same for every height of at least one row (at height 0
   the range is empty and cannot hold the selection). *)
C2_SelectionVisible ==
    (/\ active = "logs"
     /\ visible_range.some
     /\ visible_range.v.height >= 1
     /\ selected_log.some
     /\ Len(filtered_logs) > 0
     /\ selected_log.v < Len(filtered_logs))
    => LET r == visible_range.v.range
       IN  /\ r.start <= selected_log.v
           /\ selected_log.v < r.end
           /\ r.end - r.start <= visible_range.v.height

(* C2 witness: a window shorter than the list, scrolled away from the top,
   around a selection that is not the first row. *)
C2_Witness ==
    /\ active = "logs"
    /\ visible_range.some
    /\ visible_range.v.height >= 1
    /\ selected_log.some
    /\ selected_log.v >= 1
    /\ visible_range.v.range.start > 0
    /\ visible_range.v.range.end < Len(filtered_logs)

(* C3: wherever the shared function list can be read (the clone a load
   takes, a task about to take the lock, a filter update after a load that
   returned Ok), it is a whole list: the cached one or the sorted result of
   a fetch, never an emptied or a mixed one. *)
C3_ReadersSeeWholeList ==
    active = "functions" =>
        /\ ui \in {"hit_clone", "aws_clone"} => lambda_functions \in CompleteLists
        /\ (\E i \in DOMAIN tasks : tasks[i].pc = "install")
               => lambda_functions \in CompleteLists
        /\ (ui = "idle" /\ load_result = Ok) => lambda_functions \in CompleteLists

(* The scenario of C4: the cache holds [a, b], the source answers [b] and
   then [c, d]. *)
ScenarioEnv ==
    [pages |-> << <<Some(<<"b">>)>>, <<Some(<<"c">>), Some(<<"d">>)>> >>,
     cached |-> Some(<< <<"a">>, <<"b">> >>)]

(* C4: in the scenario, one load_functions installs [a, b] and returns it as
   the view at once; while the refresh it spawned has not finished the shared
   list is [a, b]; once the refresh has completed the shared list and the
   cache are the sorted [b, c, d]. *)
C4_CachedThenRefreshed ==
    (active = "functions" /\ fs_env = ScenarioEnv /\ fs_loads = 1) =>
        /\ last = "load_functions returned" =>
               /\ load_result = Ok
               /\ filtered_functions = << <<"a">>, <<"b">> >>
        /\ (Len(tasks) = 1 /\ tasks[1].pc # "done") =>
               lambda_functions = << <<"a">>, <<"b">> >>
        /\ (Len(tasks) = 1 /\ tasks[1].pc = "done") =>
               /\ lambda_functions = << <<"b">>, <<"c">>, <<"d">> >>
               /\ cache = Some(<< <<"b">>, <<"c">>, <<"d">> >>)

(* C4 witness: the scenario's refresh has completed after the view showed
   the cached list. *)
C4_Witness ==
    /\ active = "functions"
    /\ fs_env = ScenarioEnv
    /\ fs_loads = 1
    /\ Len(tasks) = 1
    /\ tasks[1].pc = "done"
    /\ filtered_functions = << <<"a">>, <<"b">> >>
    /\ lambda_functions = << <<"b">>, <<"c">>, <<"d">> >>

(* C5: load_functions never returns an error because the cache could not be
   read; a read failure counts as a miss. *)
C5_CacheReadFailureIsAMiss ==
    active = "functions" => load_result # Err("cache read")

(* C6: a failure to write the cache never ends a load or a refresh whose
   fetch succeeded, so the fetched list still replaces the shared list. *)
C6_CacheWriteFailureNotFatal ==
    active = "functions" =>
        /\ load_result # Err("cache write")
        /\ \A i \in DOMAIN tasks : tasks[i].result # Err("cache write")

(* C7: a step in which a request of a fetch fails, at the first page or a
   later one, hands the error to the caller, keeps nothing of the pages
   already fetched, and leaves the cache, the shared list and the filtered
   view as they were. *)
C7_RemoteFailureChangesNothing ==
    [][ /\ last' \in {"aws fetch failed at the first page",
                      "aws fetch failed at a later page"}
            => /\ load_result' = Err("remote")
               /\ ui' = "idle"
               /\ ui_functions' = <<>>
               /\ UNCHANGED <<cache, lambda_functions, filtered_functions,
                              list_state>>
        /\ last' \in {"task fetch failed at the first page",
                      "task fetch failed at a later page"}
            => /\ \E i \in DOMAIN tasks :
                      /\ tasks[i].pc = "fetch"
                      /\ tasks'[i] = [pc |-> "failed", functions |-> <<>>,
                                      result |-> Err("remote")]
               /\ UNCHANGED <<cache, lambda_functions, filtered_functions,
                              list_state>>
        /\ last' \in {"initialize failed at the first page",
                      "initialize failed at a later page"}
            => /\ lv_result' = Err("remote")
               /\ UNCHANGED <<logs, filtered_logs, selected_log>>
      ]_vars

(* C7 witness: a refresh failed at a later page and the cached list is
   still the shared list and the cache entry. *)
C7_Witness ==
    /\ active = "functions"
    /\ last = "task fetch failed at a later page"
    /\ fs_env.cached.some
    /\ lambda_functions = fs_env.cached.v
    /\ filtered_functions = fs_env.cached.v
    /\ cache = fs_env.cached

(* C8: a fetch that succeeds has requested every page, an empty page with a
   token included: what it returns is the concatenation of all pages in
   request order (for function names, before the sort). *)
C8_FetchReturnsAllPages ==
    /\ active = "functions" =>
           /\ ui = "aws_sort" => ui_functions = AllNames(fs_env.pages)
           /\ \A i \in DOMAIN tasks :
                  tasks[i].pc = "sort"
                      => tasks[i].functions = AllNames(fs_env.pages)
    /\ (active = "logs" /\ lv_result = Ok) => logs = AllLogs(lv_source)

(* C8 witness: a fetch went past an empty page that carried a token and
   returned the names of the page after it. *)
C8_Witness ==
    /\ active = "functions"
    /\ Len(fs_env.pages) = 3
    /\ fs_env.pages[2] = <<>>
    /\ \E i \in DOMAIN tasks :
           /\ tasks[i].pc = "sort"
           /\ tasks[i].functions = << <<"d">>, <<"A", "b">>, <<"a">> >>

(* C9: right after a filter update the selection is Some(0) when the
   filtered view is non-empty and None when it is empty. *)
C9_FilterResetsSelection ==
    last = "update_filter" =>
        /\ active = "functions" =>
               list_state = IF filtered_functions # <<>> THEN Some(0) ELSE None
        /\ active = "logs" =>
               selected_log = IF filtered_logs # <<>> THEN Some(0) ELSE None

(* C10: on every list screen a selected index is below the length of the
   current filtered view. *)
C10_SelectionInRange ==
    /\ active = "profiles" =>
           (profile_list_state.some => profile_list_state.v < Len(profiles))
    /\ active = "functions" =>
           (list_state.some => list_state.v < Len(filtered_functions))
    /\ active = "logs" =>
           (selected_log.some => selected_log.v < Len(filtered_logs))

(* C11: a filter update that leaves the filtered view empty leaves the
   selection None, and on an empty filtered view next and previous (for the
   log list scroll_down and scroll_up) change no field of the screen. *)
C11_EmptyViewNavigationIsNoOp ==
    [][ /\ (active = "functions" /\ last' = "update_filter"
               /\ filtered_functions' = <<>>)
            => list_state' = None
        /\ (active = "logs" /\ last' = "update_filter" /\ filtered_logs' = <<>>)
            => selected_log' = None
        /\ (active = "functions" /\ filtered_functions = <<>>
               /\ last' \in {"next", "previous"})
            => UNCHANGED fsVars
        /\ (active = "logs" /\ filtered_logs = <<>>
               /\ last' \in {"scroll_up", "scroll_down"})
            => UNCHANGED <<logs, filtered_logs, lv_filter_input, scroll_offset,
                           selected_log, expanded, lv_result>>
      ]_vars

(* The whitespace-separated tokens of a text: its maximal runs of
   characters that are not whitespace. *)
Tokens(text) ==
    { SubSeq(text, p[1], p[2]) : p \in
        { p \in (DOMAIN text) \X (DOMAIN text) :
            /\ p[1] <= p[2]
            /\ \A k \in p[1]..p[2] : text[k] # " "
            /\ (p[1] = 1 \/ text[p[1] - 1] = " ")
            /\ (p[2] = Len(text) \/ text[p[2] + 1] = " ") } }

(* t occurs in s when letter case is ignored. *)
ContainsIgnoringCase(s, t) ==
    \E i \in 0..(Len(s) - Len(t)) :
        \A k \in 1..Len(t) : LowerChar(s[i + k]) = LowerChar(t[k])

(* matches(query, candidate): every token of the query occurs in the
   candidate, letter case ignored. *)
Matches(query, candidate) ==
    \A token \in Tokens(query) : ContainsIgnoringCase(candidate, token)

(* view is the subsequence of backing, in order, at the positions in keep. *)
IsSubsequenceAt(view, backing, keep) ==
    /\ Len(view) = Cardinality(keep)
    /\ \A i \in keep :
           view[Cardinality({j \in keep : j < i}) + 1] = backing[i]

(* C12: right after a filter update the filtered view is the subsequence of
   the backing list, in its order, of exactly the items that match the
   filter text; with an empty text it is the whole backing list. *)
C12_ViewIsTheMatchingSubsequence ==
    /\ (active = "functions" /\ last = "update_filter") =>
           IsSubsequenceAt(filtered_functions, lambda_functions,
               {i \in DOMAIN lambda_functions :
                   Matches(fs_filter_input, lambda_functions[i])})
    /\ (active = "logs" /\ last \in {"update_filter", "initialize"}) =>
           /\ IsSubsequenceAt(filtered_logs, logs,
                  {i \in DOMAIN logs :
                      Matches(lv_filter_input, logs[i].message.v)})
           /\ lv_filter_input = <<>> => filtered_logs = logs

(* C12 witness: a query of two tokens, one in upper case and with blanks
   around them, kept some items of the function list and dropped others. *)
C12_Witness ==
    /\ active = "functions"
    /\ last = "update_filter"
    /\ Cardinality(Tokens(fs_filter_input)) = 2
    /\ filtered_functions # <<>>
    /\ Len(filtered_functions) < Len(lambda_functions)

(* The tokens of a query as a set, letter case ignored: two queries with the
   same set differ by the order, the repetition, the letter case of their
   tokens and by the blanks around them. *)
TokenSet(query) == { to_lowercase(t) : t \in Tokens(query) }

(* C13: right after a filter update with some query, the filtered view is
   the one every query with the same tokens gives on the same backing list,
   whatever the order, repetition or letter case of the tokens. *)
C13_TokenOrderIrrelevant ==
    /\ (active = "functions" /\ last = "update_filter") =>
           \A q \in FilterTexts :
               (q # <<>> /\ fs_filter_input # <<>>
                    /\ TokenSet(q) = TokenSet(fs_filter_input))
                   => fs_filter(lambda_functions, q) = filtered_functions
    /\ (active = "logs" /\ last = "update_filter") =>
           \A q \in FilterTexts :
               (q # <<>> /\ lv_filter_input # <<>>
                    /\ TokenSet(q) = TokenSet(lv_filter_input))
                   => lv_filter(logs, q) = filtered_logs

(* C13 witness: a two-token query filtered the function list, keeping some
   names and dropping others, and another query carries the same tokens in
   another order. *)
C13_Witness ==
    /\ active = "functions"
    /\ last = "update_filter"
    /\ filtered_functions # <<>>
    /\ Len(filtered_functions) < Len(lambda_functions)
    /\ \E q \in FilterTexts :
           /\ TokenSet(q) = TokenSet(fs_filter_input)
           /\ Len(split_whitespace(q)) = 2
           /\ Len(split_whitespace(fs_filter_input)) = 2
           /\ to_lowercase(split_whitespace(q)[1])
                  # to_lowercase(split_whitespace(fs_filter_input)[1])

(* C14: right after an operation that selects the preset "Last Hour" (index
   0) while the clock reads `now`, the range is from = now - 1h, to = now,
   whatever the clock read at construction or at an earlier selection. *)
C14_LastHourAnchoredToClock ==
    (/\ active = "date"
     /\ last \in {"next_quick_range", "previous_quick_range"}
     /\ selected_quick_range = Some(0))
    => /\ to_date = now
       /\ from_date = now - 60

(* C14 witness: "Last Hour" was selected again after the clock had moved on
   from the reading taken at construction. *)
C14_Witness ==
    /\ active = "date"
    /\ last = "previous_quick_range"
    /\ selected_quick_range = Some(0)
    /\ ticks >= 1
    /\ now \notin StartClocks
    /\ to_date = now
    /\ from_date = now - 60

(* C15: a toggle_custom that leaves custom mode keeps the preset that was
   selected and sets the range to that preset's duration back from the
   current clock, whatever the custom edits were. *)
C15_ToggleBackRederivesSelectedPreset ==
    [][ (/\ active = "date"
         /\ last' = "toggle_custom"
         /\ custom_selection
         /\ selected_quick_range.some)
        => /\ ~custom_selection'
           /\ selected_quick_range' = selected_quick_range
           /\ to_date' = now
           /\ from_date' = now - quick_ranges[selected_quick_range.v + 1]
      ]_vars

(* The month next to m in the direction of an adjustment, 12 and 1 being
   neighbours. *)
NeighbourMonth(m, increment) ==
    IF increment THEN (IF m = 12 THEN 1 ELSE m + 1)
    ELSE (IF m = 1 THEN 12 ELSE m - 1)

(* The bound adjust_current_field edits. *)
EditedBound == IF is_selecting_from THEN from_date ELSE to_date

(* C16 as stated: in every adjustment of the Month field the field
   arithmetic gives the edited bound the neighbouring month (12 -> 1 upwards,
   1 -> 12 downwards, one more or one less otherwise) in the same year. *)
C16_MonthAlwaysMovesByOne ==
    [][ (/\ active = "date"
         /\ last' \in {"adjust_up", "adjust_down"}
         /\ current_field = "Month")
        => LET increment == (last' = "adjust_up")
               r == adjust_field(EditedBound, "Month", increment)
           IN  /\ YearOf(r) = YearOf(EditedBound)
               /\ MonthOf(r) = NeighbourMonth(MonthOf(EditedBound), increment)
      ]_vars

(* C16 amended: the same when the day of the edited bound exists in the
   neighbouring month of the same year; when it does not, the field
   arithmetic leaves the bound as it was.  The operation ends with that
   result, or with the other bound when the result would break the order. *)
C16_MonthMovesByOneOrStays ==
    [][ (/\ active = "date"
         /\ last' \in {"adjust_up", "adjust_down"}
         /\ current_field = "Month")
        => LET increment == (last' = "adjust_up")
               d == EditedBound
               target == NeighbourMonth(MonthOf(d), increment)
               r == adjust_field(d, "Month", increment)
           IN  /\ IF DayOf(d) <= DaysInMonth(YearOf(d), target)
                  THEN YearOf(r) = YearOf(d) /\ MonthOf(r) = target
                  ELSE r = d
               /\ is_selecting_from =>
                      from_date' = IF r > to_date THEN to_date ELSE r
               /\ ~is_selecting_from =>
                      to_date' = IF r < from_date THEN from_date ELSE r
      ]_vars

(* C16 witness: the from bound was in December and an upward adjustment of
   its Month field put it in January of the same year. *)
C16_Witness ==
    /\ active = "date"
    /\ last = "adjust_up"
    /\ current_field = "Month"
    /\ is_selecting_from
    /\ MonthOf(from_date) = 1
    /\ YearOf(from_date) = 2023
    /\ YearOf(to_date) = 2023
    /\ MonthOf(to_date) = 12

(* C17: adjust_current_field changes the edited bound only.  Editing from,
   to_date stays and from_date becomes the adjusted value, or to_date when
   the adjusted value is later than to_date; editing to, from_date stays and
   to_date becomes the adjusted value, or from_date when the adjusted value
   is earlier than from_date.  No other field of the editor changes. *)
C17_AdjustTouchesEditedBoundOnly ==
    [][ (active = "date" /\ last' \in {"adjust_up", "adjust_down"})
        => LET r == adjust_field(EditedBound, current_field,
                                 last' = "adjust_up")
           IN  /\ is_selecting_from =>
                      /\ to_date' = to_date
                      /\ from_date' = IF r > to_date THEN to_date ELSE r
               /\ ~is_selecting_from =>
                      /\ from_date' = from_date
                      /\ to_date' = IF r < from_date THEN from_date ELSE r
               /\ UNCHANGED <<is_selecting_from, current_field,
                              selected_quick_range, custom_selection>>
      ]_vars

(* C17 witness: the to bound was moved a day back, below from_date, and was
   clamped onto from_date, which kept the value it had at construction. *)
C17_Witness ==
    /\ active = "date"
    /\ last = "adjust_down"
    /\ ~is_selecting_from
    /\ current_field = "Day"
    /\ to_date = from_date
    /\ \E t \in StartClocks : from_date = t - 60

(* C18: when the height is 0 or at least the length of the filtered view,
   the range get_visible_range returns starts at 0, whatever the
   selection. *)
C18_DegenerateViewportStartsAtZero ==
    (/\ active = "logs"
     /\ visible_range.some
     /\ \/ visible_range.v.height = 0
        \/ visible_range.v.height >= Len(filtered_logs))
    => visible_range.v.range.start = 0

(* C19: once a refresh task has replaced the shared list, the filtered view
   of the function screen becomes the current filter text applied to the
   shared list, with no key press needed for it. *)
C19_ViewFollowsRefresh ==
    (active = "functions" /\ last = "task install")
        ~> (filtered_functions = fs_filter(lambda_functions, fs_filter_input))

(* C20: when the function list is entered, after a step back with Esc as
   well as the first time, its filter text is empty, its selected index is
   0 with the first row selected, and its filtered view is the filter text
   applied to the backing list. *)
C20_ReentryStartsFresh ==
    (active = "app" /\ last = "Enter" /\ app_state = "FunctionList")
    => /\ app_filter_input = <<>>
       /\ app_selected_index = 0
       /\ app_list_state = Some(0)
       /\ app_filtered_functions =
              app_filter(app_lambda_functions, app_filter_input)

(* C21: while the main loop runs, on whichever screen, the key 'q' is
   accepted; once 'q' has been handled the loop has ended, and after it has
   ended by 'q' the last key handled is still that 'q': no transition
   follows it. *)
C21_QuitEndsSession ==
    active = "app" =>
        /\ (app_exit = NoResult /\ app_keys < MaxKeys) => ENABLED key_quit
        /\ last = "q" => app_exit = Ok
        /\ app_exit = Ok => last = "q"

(* C21 witness: 'q' was pressed on the function list, with a filter typed,
   and the loop has ended there. *)
C21_Witness ==
    /\ active = "app"
    /\ last = "q"
    /\ app_exit = Ok
    /\ app_state = "FunctionList"
    /\ app_filter_input # <<>>

(* No name of the list is followed by a smaller one. *)
IsSorted(xs) ==
    \A i, j \in DOMAIN xs : i < j => ~StrLess(xs[j], xs[i])

(* C22: the list a completed fetch leaves behind is sorted: the shared list
   after a refresh task has installed it, the shared list after a load that
   missed the cache, every cache entry, and the list select_profile stores;
   a load that hit the cache installs the entry as it was stored. *)
C22_FetchedListsAreSorted ==
    /\ active = "functions" =>
           /\ last = "task install" => IsSorted(lambda_functions)
           /\ cache.some => IsSorted(cache.v)
           /\ (last = "load_functions returned" /\ fs_loads = 1) =>
                  IF fs_env.cached.some
                  THEN lambda_functions = fs_env.cached.v
                  ELSE /\ IsSorted(lambda_functions)
                       /\ lambda_functions = sort(AllNames(fs_env.pages))
    /\ (active = "app" /\ last = "Enter" /\ app_state = "FunctionList") =>
           IsSorted(app_lambda_functions)

(* C23: the load that spawns a refresh task returns Ok in the same step; a
   step in which a refresh task fails, at a request or at the cache write,
   changes neither the shared list, the filtered view, the selection nor the
   result and position of the UI thread, and a failed request leaves the
   cache entry too; before its installation a task changes none of them. *)
C23_RefreshFailureIsSilent ==
    [][ active = "functions" =>
        /\ Len(tasks') > Len(tasks) => (load_result' = Ok /\ ui' = "idle")
        /\ last' \in {"task fetch", "task sort", "task cache",
                      "task fetch failed at the first page",
                      "task fetch failed at a later page"}
            => UNCHANGED <<lambda_functions, filtered_functions,
                           selected_index, list_state, fs_filter_input,
                           load_result, ui, ui_functions>>
        /\ last' \in {"task fetch failed at the first page",
                      "task fetch failed at a later page"}
            => UNCHANGED cache
      ]_vars

(* C23 witness: a refresh task has failed at the cache write while the
   screen shows the cached list with its first row selected. *)
C23_Witness ==
    /\ active = "functions"
    /\ last = "task cache"
    /\ \E i \in DOMAIN tasks : tasks[i].result = Err("cache write")
    /\ load_result = Ok
    /\ fs_env.cached.some
    /\ lambda_functions = fs_env.cached.v
    /\ filtered_functions = fs_env.cached.v
    /\ list_state = Some(0)

(* C24: when a load that found a cache entry returns, it returns Ok with
   the entry shown and the task it spawned has not yet made a request; and
   such a load returns by local steps alone, so it completes even when no
   request to the remote source is ever answered. *)
C24_CacheHitLoadCompletes ==
    /\ []((/\ active = "functions"
            /\ last = "load_functions returned"
            /\ fs_loads = 1
            /\ fs_env.cached.some)
           => /\ load_result = Ok
              /\ ui = "idle"
              /\ tasks = <<NewTask>>
              /\ filtered_functions = fs_env.cached.v)
    /\ (active = "functions" /\ ui = "hit_clear")
           ~> (ui = "idle" /\ load_result = Ok
                   /\ last = "load_functions returned")

(* C24 witness: a load that hit the cache has returned Ok with the cached
   list shown, and the task it spawned has not made its first request. *)
C24_Witness ==
    /\ active = "functions"
    /\ last = "load_functions returned"
    /\ fs_env.cached.some
    /\ load_result = Ok
    /\ tasks = <<NewTask>>
    /\ filtered_functions = fs_env.cached.v
    /\ lambda_functions = fs_env.cached.v

(* C25: toggle_expand flips expanded and puts the line offset at 0 without
   touching the selection; while expanded, scroll_up and scroll_down move
   the line offset by one (not below 0) and leave the selection; while not
   expanded they move the selection by one row inside the list, or select
   the first row when nothing is selected. *)
C25_ExpandedScrollsLines ==
    [][ active = "logs" =>
        /\ last' = "toggle_expand"
            => /\ expanded' = ~expanded
               /\ scroll_offset' = 0
               /\ UNCHANGED selected_log
        /\ (expanded /\ last' = "scroll_up")
            => /\ scroll_offset' = saturating_sub(scroll_offset, 1)
               /\ UNCHANGED <<selected_log, expanded>>
        /\ (expanded /\ last' = "scroll_down")
            => /\ scroll_offset' = scroll_offset + 1
               /\ UNCHANGED <<selected_log, expanded>>
        /\ (~expanded /\ last' = "scroll_up" /\ selected_log.some)
            => selected_log' = Some(saturating_sub(selected_log.v, 1))
        /\ (~expanded /\ last' = "scroll_down" /\ selected_log.some)
            => selected_log' =
                   Some(Min(selected_log.v + 1, Len(filtered_logs) - 1))
        /\ (~expanded /\ last' \in {"scroll_up", "scroll_down"}
               /\ ~selected_log.some)
            => selected_log' =
                   IF filtered_logs # <<>> THEN Some(0) ELSE None
      ]_vars

(* C25 witness: in expanded mode a scroll_down moved the line offset while
   a row other than the first stayed selected; the offset had been put at 0
   when the mode was entered. *)
C25_Witness ==
    /\ active = "logs"
    /\ last = "scroll_down"
    /\ expanded
    /\ scroll_offset = 1
    /\ selected_log.some
    /\ selected_log.v >= 2

(* C26: on a non-empty filtered list whose line offset is inside
   [0, total-1], each of scroll_up, scroll_down, page_up and page_down
   leaves the offset inside [0, total-1]. *)
C26_ScrollOffsetStaysInRange ==
    [][ (/\ active = "logs"
         /\ filtered_logs # <<>>
         /\ scroll_offset \in 0..(Len(filtered_logs) - 1)
         /\ last' \in {"scroll_up", "scroll_down", "page_up", "page_down"})
        => scroll_offset' \in 0..(Len(filtered_logs') - 1)
      ]_vars

(* C27: at any time at most one of the refresh tasks spawned by the
   load_functions calls on one FunctionSelection has not yet finished. *)
C27_AtMostOneRefreshInFlight ==
    active = "functions"
        => Cardinality({ i \in DOMAIN tasks :
                           tasks[i].pc \notin {"done", "failed"} }) <= 1

(* C28: when a load_functions that found no cache entry returns, it returns
   Ok with the cache entry, the shared list and the filtered view all equal
   to the sorted list of every name the remote source holds, the first row
   selected, and no task spawned. *)
C28_MissLoadsSynchronously ==
    [][ (active = "functions" /\ ui = "aws_clone"
            /\ last' = "load_functions returned")
        => LET remote == sort(AllNames(fs_env.pages))
           IN  /\ load_result' = Ok
               /\ ui' = "idle"
               /\ IsSorted(remote)
               /\ cache' = Some(remote)
               /\ lambda_functions' = remote
               /\ filtered_functions' = remote
               /\ list_state' = Some(0)
               /\ tasks' = <<>>
      ]_vars

(* C28 witness: a load that missed the cache has returned Ok with a remote
   list of three names that arrived out of order. *)
C28_Witness ==
    /\ active = "functions"
    /\ last = "load_functions returned"
    /\ ~fs_env.cached.some
    /\ load_result = Ok
    /\ tasks = <<>>
    /\ Len(filtered_functions) = 3
    /\ AllNames(fs_env.pages) # filtered_functions
    /\ cache = Some(filtered_functions)
    /\ lambda_functions = filtered_functions

(* C29: reading the profile file never fails; when the file is absent,
   unreadable or malformed the session runs without error on a profile
   screen with an empty list and no selection, and no key, Enter included,
   ever leaves that screen or selects a profile. *)
C29_ProfileSourceNeverFails ==
    active = "app" =>
        /\ read_aws_profiles(app_env.file).ok
        /\ app_env.file.kind \in {"absent", "unreadable", "malformed"}
            => /\ app_env.profiles = <<>>
               /\ app_profile_list_state = None
               /\ app_exit \in {NoResult, Ok}
               /\ app_state = "ProfileSelection"
               /\ app_selected_profile = None
               /\ app_lambda_functions = <<>>

(* The preset index after n consecutive next_quick_range calls from i. *)
RECURSIVE NextTimes(_, _)
NextTimes(n, i) == IF n = 0 THEN i ELSE NextTimes(n - 1, next_index(i))

(* C30: in quick mode next_quick_range takes the preset index i to
   (i + 1) mod 8 and previous_quick_range takes it to (i - 1 + 8) mod 8, each
   leaving the range as [clock - duration of the new preset, clock]; on every
   index next then previous, and previous then next, give the index back,
   and 8 consecutive next give it back. *)
C30_QuickRangeCycles ==
    /\ [][ (active = "date" /\ ~custom_selection) =>
            /\ last' = "next_quick_range"
                => /\ selected_quick_range.some
                   /\ selected_quick_range' =
                          Some((selected_quick_range.v + 1) % 8)
            /\ last' = "previous_quick_range"
                => /\ selected_quick_range.some
                   /\ selected_quick_range' =
                          Some((selected_quick_range.v - 1 + 8) % 8)
            /\ last' \in {"next_quick_range", "previous_quick_range"}
                => /\ to_date' = now
                   /\ from_date' =
                          now - quick_ranges[selected_quick_range'.v + 1]
         ]_vars
    /\ [](\A i \in 0..7 :
              /\ previous_index(next_index(i)) = i
              /\ next_index(previous_index(i)) = i
              /\ NextTimes(8, i) = i)

(* C30 witness: with no other operation performed and the clock moved on,
   next_quick_range has wrapped from the last preset to the first, and the
   range is the last hour before the new clock reading. *)
C30_Witness ==
    /\ active = "date"
    /\ last = "next_quick_range"
    /\ ~custom_selection
    /\ ds_ops = 0
    /\ ticks = MaxTicks
    /\ selected_quick_range = Some(0)
    /\ to_date = now
    /\ from_date = now - 60

(* The field after n consecutive next_field calls from f. *)
RECURSIVE NextFieldTimes(_, _)
NextFieldTimes(n, f) ==
    IF n = 0 THEN f ELSE NextFieldTimes(n - 1, next_field_match(f))

(* The fixed order of the fields. *)
FieldOrder == <<"Year", "Month", "Day", "Hour", "Minute">>

(* C31: next_field moves the edited field one place forward in the order
   Year, Month, Day, Hour, Minute, from Minute to Year; previous_field moves
   it one place back, from Year to Minute; both leave from_date, to_date,
   the edited bound, the mode and the preset; on every field previous after
   next and next after previous give the field back, and so do five next. *)
C31_FieldCycles ==
    /\ [][ active = "date" =>
            /\ last' = "next_field" =>
                   \E k \in 1..5 : /\ current_field = FieldOrder[k]
                                   /\ current_field' = FieldOrder[(k % 5) + 1]
            /\ last' = "previous_field" =>
                   \E k \in 1..5 : /\ current_field = FieldOrder[k]
                                   /\ current_field' =
                                          FieldOrder[((k + 3) % 5) + 1]
            /\ last' \in {"next_field", "previous_field"} =>
                   UNCHANGED <<from_date, to_date, is_selecting_from,
                               custom_selection, selected_quick_range>>
         ]_vars
    /\ [](\A f \in DateFields :
              /\ previous_field_match(next_field_match(f)) = f
              /\ next_field_match(previous_field_match(f)) = f
              /\ NextFieldTimes(5, f) = f)

(* C31 witness: in custom mode previous_field has wrapped from Year to
   Minute. *)
C31_Witness ==
    /\ active = "date"
    /\ last = "previous_field"
    /\ current_field = "Minute"
    /\ custom_selection

(* C32: toggle_custom in quick mode enters custom mode and leaves
   from_date, to_date and the selected preset index as they were. *)
C32_EnteringCustomKeepsRange ==
    [][ (active = "date" /\ ~custom_selection /\ last' = "toggle_custom")
        => /\ custom_selection'
           /\ UNCHANGED <<from_date, to_date, selected_quick_range>>
      ]_vars

(* C32 witness: custom mode has just been entered with a preset other than
   the first selected and a range computed at an earlier clock reading. *)
C32_Witness ==
    /\ active = "date"
    /\ last = "toggle_custom"
    /\ custom_selection
    /\ selected_quick_range = Some(2)
    /\ to_date < now
    /\ to_date - from_date = 180

(* Whether two instants differ at most in the year (in the month). *)
SameButYear(a, b) ==
    /\ MonthOf(a) = MonthOf(b) /\ DayOf(a) = DayOf(b)
    /\ HourOf(a) = HourOf(b) /\ MinuteOf(a) = MinuteOf(b)

SameButMonth(a, b) ==
    /\ YearOf(a) = YearOf(b) /\ DayOf(a) = DayOf(b)
    /\ HourOf(a) = HourOf(b) /\ MinuteOf(a) = MinuteOf(b)

(* The edited bound and its day-of-month check for a Year or Month
   adjustment in the direction `increment`. *)
TargetExists(d, field, increment) ==
    IF field = "Year"
    THEN DayOf(d) <= DaysInMonth(YearOf(d) + (IF increment THEN 1 ELSE -1),
                                 MonthOf(d))
    ELSE DayOf(d) <= DaysInMonth(YearOf(d),
                                 NeighbourMonth(MonthOf(d), increment))

(* What the claim says of a value r obtained from the bound d. *)
YearOrMonthMoved(d, r, field, increment) ==
    IF ~TargetExists(d, field, increment) THEN r = d
    ELSE IF field = "Year"
    THEN /\ YearOf(r) = YearOf(d) + (IF increment THEN 1 ELSE -1)
         /\ SameButYear(d, r)
    ELSE /\ MonthOf(r) = NeighbourMonth(MonthOf(d), increment)
         /\ SameButMonth(d, r)

(* C33 as stated: after an adjustment of the Year or Month field the edited
   bound is unchanged when the target date does not exist, and otherwise
   differs from its old value in the year (the month) only, which has moved
   by one. *)
C33_YearMonthAdjustKeepsRest ==
    [][ (/\ active = "date"
         /\ last' \in {"adjust_up", "adjust_down"}
         /\ current_field \in {"Year", "Month"})
        => YearOrMonthMoved(EditedBound,
                            IF is_selecting_from THEN from_date' ELSE to_date',
                            current_field, last' = "adjust_up")
      ]_vars

(* C33 amended: the same of the value the field arithmetic gives; the
   operation ends with that value, or with the other bound when that value
   would break the order of the two bounds. *)
C33_YearMonthArithmeticKeepsRest ==
    [][ (/\ active = "date"
         /\ last' \in {"adjust_up", "adjust_down"}
         /\ current_field \in {"Year", "Month"})
        => LET increment == (last' = "adjust_up")
               r == adjust_field(EditedBound, current_field, increment)
           IN  /\ YearOrMonthMoved(EditedBound, r, current_field, increment)
               /\ is_selecting_from =>
                      from_date' = IF r > to_date THEN to_date ELSE r
               /\ ~is_selecting_from =>
                      to_date' = IF r < from_date THEN from_date ELSE r
      ]_vars

(* C33 witness: the from bound stood on 29 February 2024 and an upward
   adjustment of its Year field left it there. *)
C33_Witness ==
    /\ active = "date"
    /\ last = "adjust_up"
    /\ current_field = "Year"
    /\ is_selecting_from
    /\ from_date = MkDate(2024, 2, 29, 11, 30)
    /\ to_date = MkDate(2024, 2, 29, 12, 30)

(* C34: whenever the editor is in quick mode a preset is selected and
   to_date - from_date is the duration of that preset. *)
C34_QuickModeRangeIsPreset ==
    (active = "date" /\ ~custom_selection)
        => /\ selected_quick_range.some
           /\ to_date - from_date = quick_ranges[selected_quick_range.v + 1]

(* C35: in custom mode next_quick_range and previous_quick_range leave
   from_date and to_date as they were. *)
C35_CustomModeIgnoresQuickRange ==
    [][ (/\ active = "date"
         /\ custom_selection
         /\ last' \in {"next_quick_range", "previous_quick_range"})
        => UNCHANGED <<from_date, to_date>>
      ]_vars

(* C36: for the filtered list and a selection inside it, at every height
   the offset update_scroll sets equals the start get_visible_range
   returns; and update_scroll sets the offset to such a start. *)
C36_ScrollAgreesWithVisibleRange ==
    /\ [](\A h \in 0..MaxHeight :
              (/\ active = "logs"
               /\ selected_log.some
               /\ selected_log.v < Len(filtered_logs))
              => update_scroll_offset(selected_log.v, Len(filtered_logs), h)
                   = get_visible_range(selected_log, Len(filtered_logs),
                                       h).start)
    /\ [][ (/\ active = "logs"
            /\ last' = "update_scroll"
            /\ selected_log.some
            /\ selected_log.v < Len(filtered_logs))
           => \E h \in 0..MaxHeight :
                  scroll_offset' =
                      get_visible_range(selected_log, Len(filtered_logs),
                                        h).start
         ]_vars

(* C36 witness: with the last of four events selected, update_scroll at
   height 3 has set the offset to 1, where the end of the list caps it. *)
C36_Witness ==
    /\ active = "logs"
    /\ last = "update_scroll"
    /\ Len(filtered_logs) = 4
    /\ selected_log = Some(3)
    /\ scroll_offset = 1
    /\ get_visible_range(selected_log, 4, 3).start = 1

(* A range that is a slice of a list of `total` items. *)
IsSliceOf(range, total) ==
    /\ 0 <= range.start
    /\ range.start <= range.end
    /\ range.end <= total

(* C37: the range a render receives is a slice of the filtered list, and
   so is the range get_visible_range gives for the filtered list at every
   height with no selection and with every selection, inside the list or
   not. *)
C37_VisibleRangeIsASlice ==
    active = "logs" =>
        /\ visible_range.some
               => IsSliceOf(visible_range.v.range, Len(filtered_logs))
        /\ \A h \in 0..MaxHeight :
           \A selected \in {None} \cup {Some(i) : i \in 0..MaxLogs} :
               IsSliceOf(get_visible_range(selected, Len(filtered_logs), h),
                         Len(filtered_logs))

(* C37 witness: a render at a height above the length of a list of three
   events with the last one selected received the whole list. *)
C37_Witness ==
    /\ active = "logs"
    /\ last = "get_visible_range"
    /\ visible_range.some
    /\ Len(filtered_logs) = 3
    /\ selected_log = Some(2)
    /\ visible_range.v.height > 3
    /\ visible_range.v.range = [start |-> 0, end |-> 3]

(* C38: in every state of the log viewer selected_log is None exactly when
   filtered_logs is empty, and a selection is the index of an event of
   filtered_logs, so that get_selected_log returns an event whenever the
   filtered list is not empty. *)
C38_SelectionIffNonEmpty ==
    active = "logs" =>
        /\ ~selected_log.some <=> filtered_logs = <<>>
        /\ selected_log.some => selected_log.v \in 0..(Len(filtered_logs) - 1)

(* C38 witness: a filter that matches none of the loaded events has emptied
   the view and cleared the selection. *)
C38_Witness ==
    /\ active = "logs"
    /\ last = "update_filter"
    /\ logs # <<>>
    /\ filtered_logs = <<>>
    /\ selected_log = None

(* C39: whenever expanded is set, selected_log is the index of an event of
   filtered_logs. *)
C39_ExpandedImpliesSelected ==
    (active = "logs" /\ expanded)
        => /\ selected_log.some
           /\ selected_log.v \in 0..(Len(filtered_logs) - 1)

====
